---------------------------- MODULE Spec2Model ----------------------------
(***************************************************************************)
(* A model of the used-car appraisal servers of this repository: the      *)
(* settings store and the offer calculator, the Carfax text extractors,   *)
(* the maintenance gap inferrer with the adjusted-wholesale and customer  *)
(* report totals, the evidence scorers, cost resolution and the appraisal *)
(* store.                                                                  *)
(*                                                                         *)
(* Money is counted in units of 1/UnitsPerDollar dollar, so that a request *)
(* body can carry a fractional amount and Math.round / Math.floor do work. *)
(* A text is a TLA+ string; the regular expressions of the source are      *)
(* written out as operators over its characters.                          *)
(***************************************************************************)
EXTENDS Integers, Sequences, FiniteSets, TLC

VARIABLES S, file, req, res,
          dataFile,  \* data/appraisals.json: the stored appraisal list
          now        \* the clock Date.now() reads, in milliseconds

vars == <<S, file, req, res, dataFile, now>>

(***************************************************************************)
(* Bounds of the model.                                                    *)
(***************************************************************************)
UnitsPerDollar == 2
\* the most fragments a report text is made of
MaxFrags == 3

\* d dollars, in units
D(d) == d * UnitsPerDollar

Max(a, b) == IF a >= b THEN a ELSE b
Min(a, b) == IF a <= b THEN a ELSE b

\* Math.round(num / den) for den > 0: the nearest integer, a half going up
MathRound(num, den) == (2 * num + den) \div (2 * den)

\* Math.floor(num / den) for den > 0
MathFloor(num, den) == num \div den

\* Math.round of an amount held in units, as an amount in units
RoundUnits(u) == D(MathRound(u, UnitsPerDollar))

\* Math.floor of an amount held in units, as an amount in units
FloorUnits(u) == D(MathFloor(u, UnitsPerDollar))

(***************************************************************************)
(* Settings store (part_002).                                              *)
(***************************************************************************)
allowed == {"desiredProfit", "riskReservePerRecall", "holdingPercent", "docFee"}

\* data/settings.json as the server finds it at start: the economics of the
\* specification's end-to-end scenario.  holdingPercent is held in 1/10000.
InitSettings ==
  [desiredProfit |-> D(2000), riskReservePerRecall |-> D(150),
   holdingPercent |-> 82, docFee |-> D(235), riskReserveCapPct |-> 15]

\* the two values a client sends for a settings key
SettingValues(k) ==
  CASE k = "desiredProfit" -> <<0, D(2000)>>
    [] k = "riskReservePerRecall" -> <<D(150), D(150)>>
    [] k = "holdingPercent" -> <<82, 500>>
    [] k = "docFee" -> <<0, D(235)>>
    [] OTHER -> <<D(95), D(95)>>

\* keys a client may send: the allowed ones and one the server does not know
BodyKeys == allowed \cup {"laborRate"}

\* request bodies of POST /api/settings: any subset of the keys, a value each
SettingsBodies ==
  {[k \in ks |-> SettingValues(k)[pick[k]]] :
     ks \in SUBSET BodyKeys, pick \in [BodyKeys -> {1, 2}]}

\* Object.assign({}, S, req.body): every key of the body is taken
MergeAssign(cur, body) ==
  [k \in DOMAIN cur \cup DOMAIN body |->
     IF k \in DOMAIN body THEN body[k] ELSE cur[k]]

\* Object.assign({}, S) and the loop of POST /api/settings over the allowed
\* keys
MergeSettings(cur, body) ==
  [k \in DOMAIN cur \cup (allowed \cap DOMAIN body) |->
     IF k \in allowed /\ k \in DOMAIN body THEN body[k] ELSE cur[k]]

\* POST /api/settings: writeFileSync succeeds, then S is replaced
PostSettingsOk(body) ==
  LET next == MergeSettings(S, body) IN
  /\ file' = next
  /\ S' = next
  /\ UNCHANGED <<req, dataFile, now>>
  /\ res' = [op |-> "settings/post", ok |-> TRUE, settings |-> next,
             locals |-> [body |-> body, prev |-> S]]

\* POST /api/settings: writeFileSync throws, the catch answers ok:false
PostSettingsFail(body) ==
  /\ UNCHANGED <<S, file, req, dataFile, now>>
  /\ res' = [op |-> "settings/post", ok |-> FALSE, settings |-> S]

PostSettings ==
  \E body \in SettingsBodies :
    \/ PostSettingsOk(body)
    \/ PostSettingsFail(body)

\* GET /api/settings reads the file, not S
GetSettings ==
  /\ UNCHANGED <<S, file, req, dataFile, now>>
  /\ res' = [op |-> "settings/get", ok |-> TRUE, settings |-> file]

(***************************************************************************)
(* Offer calculator (part_002, part_005: the same code).                   *)
(***************************************************************************)
\* amounts a client sends, in units
RetailBases == {D(1000), D(14000)}
WholesaleBases == {0, D(500) + 1, D(12040)}
MaintDeductions == {0, D(325), D(600)}
ReconTotals == {0, D(450)}
RiskReserves == {0, D(700), D(5000)}

OfferBodies ==
  [retailBase : RetailBases, wholesaleBase : WholesaleBases,
   maintDeduction : MaintDeductions, reconTotal : ReconTotals,
   riskReserve : RiskReserves]

\* (x || 0) on a number
OrZero(x) == IF x = 0 THEN 0 ELSE x

\* const adjWholesale = wholesaleBase - maintDeduction
AdjWholesale(wholesaleBase, maintDeduction) == wholesaleBase - maintDeduction

\* the holding cost at the rate the server started with
HoldingStale(s, retailBase) ==
  D(MathRound(OrZero(InitSettings.holdingPercent) * retailBase,
              10000 * UnitsPerDollar))

\* Math.round((S.holdingPercent||0) * retailBase), in units
Holding(s, retailBase) ==
  D(MathRound(OrZero(s.holdingPercent) * retailBase, 10000 * UnitsPerDollar))

\* the risk reserve ceiling1 subtracts: the body's riskReserve as it is
UsedRiskReserve(s, b) == b.riskReserve

Ceiling1(s, b) ==
  AdjWholesale(b.wholesaleBase, b.maintDeduction) - b.reconTotal
    - UsedRiskReserve(s, b) - OrZero(s.desiredProfit)

Ceiling2(s, b) ==
  b.retailBase - OrZero(s.desiredProfit) - b.reconTotal
    - Holding(s, b.retailBase) - OrZero(s.docFee)

\* const targetMaxBuy = Math.min(ceiling1, ceiling2)
TargetMaxBuy(s, b) == Min(Ceiling1(s, b), Ceiling2(s, b))

OfferNumbers(s, b) ==
  [retailBase |-> b.retailBase, wholesaleBase |-> b.wholesaleBase,
   maintDeduction |-> b.maintDeduction,
   adjWholesale |-> AdjWholesale(b.wholesaleBase, b.maintDeduction),
   reconTotal |-> b.reconTotal, riskReserve |-> b.riskReserve,
   desiredProfit |-> OrZero(s.desiredProfit),
   holding |-> Holding(s, b.retailBase), fees |-> OrZero(s.docFee),
   targetMaxBuy |-> TargetMaxBuy(s, b)]

\* POST /api/offer/calc
OfferCalc ==
  \E b \in OfferBodies :
    /\ UNCHANGED <<S, file, req, dataFile, now>>
    /\ res' = [op |-> "offer/calc", ok |-> TRUE, numbers |-> OfferNumbers(S, b),
               locals |-> [ceiling1 |-> Ceiling1(S, b),
                           ceiling2 |-> Ceiling2(S, b)]]

(***************************************************************************)
(* Strings and the regular expressions of the extractors.                  *)
(*                                                                         *)
(* A pattern is a sequence of items, matched left to right from a position *)
(* of the text:                                                            *)
(*   [k |-> "lit", v]            the characters of v                       *)
(*   [k |-> "rep", cls, min, max] a greedy run of characters of cls         *)
(*   [k |-> "alt", alts]         the first of the strings alts that matches *)
(*   [k |-> "lazy"]              .*?  the shortest run without a newline    *)
(*   [k |-> "wb"]                \b   a word boundary                       *)
(*   [k |-> "cap"]               the start of the capture group             *)
(* No pattern of the source needs to give back part of a greedy run or to   *)
(* try a second alternative: the item after a run starts with a character   *)
(* outside the run's class, and no alternative is a prefix of another.      *)
(* A pattern with the i flag is written in lower case and matched against   *)
(* the lower-cased text.                                                    *)
(***************************************************************************)
Ch(s, i) == SubSeq(s, i, i)

Chars(s) == {Ch(s, i) : i \in 1..Len(s)}

UpperCase == "ABCDEFGHIJKLMNOPQRSTUVWXYZ"
LowerCase == "abcdefghijklmnopqrstuvwxyz"
Digits == "0123456789"

DIGIT == Chars(Digits)
UPPER == Chars(UpperCase)
\* \s
WS == {" ", "\n", "\t", "\r"}
\* \w
WORD == UPPER \cup Chars(LowerCase) \cup DIGIT \cup {"_"}

IndexOfChar(str, c) == CHOOSE i \in 1..Len(str) : Ch(str, i) = c

LowerOf == [c \in UPPER |-> Ch(LowerCase, IndexOfChar(UpperCase, c))]

LowerChar(c) == IF c \in UPPER THEN LowerOf[c] ELSE c

RECURSIVE MapChars(_, _)
\* String.prototype.toLowerCase
ToLowerCase(s) ==
  IF \A i \in 1..Len(s) : Ch(s, i) \notin UPPER THEN s ELSE MapChars(s, 1)
MapChars(s, i) ==
  IF i > Len(s) THEN "" ELSE LowerChar(Ch(s, i)) \o MapChars(s, i + 1)

RECURSIVE StripFrom(_, _, _)
\* s.replace(/<c>/g, '')
Strip(s, c) == StripFrom(s, c, 1)
StripFrom(s, c, i) ==
  IF i > Len(s) THEN ""
  ELSE (IF Ch(s, i) = c THEN "" ELSE Ch(s, i)) \o StripFrom(s, c, i + 1)

StartsAt(s, i, p) ==
  /\ i >= 1
  /\ i + Len(p) - 1 <= Len(s)
  /\ SubSeq(s, i, i + Len(p) - 1) = p

\* String.prototype.includes
Includes(s, p) == \E i \in 1..(Len(s) - Len(p) + 1) : StartsAt(s, i, p)

RECURSIVE RunLen(_, _, _, _)
\* the length, at most max, of the run of characters of cls that starts at i
RunLen(s, i, cls, max) ==
  IF max = 0 \/ i > Len(s) \/ Ch(s, i) \notin cls THEN 0
  ELSE 1 + RunLen(s, i + 1, cls, max - 1)

\* String.prototype.trim
Trim(s) ==
  LET n == Len(s)
      lead == RunLen(s, 1, WS, n)
      last == IF lead = n THEN 0
              ELSE CHOOSE j \in 1..n :
                     /\ Ch(s, j) \notin WS
                     /\ \A k \in (j + 1)..n : Ch(s, k) \in WS
  IN  IF lead = n THEN "" ELSE SubSeq(s, lead + 1, last)

IsWordAt(s, i) == i >= 1 /\ i <= Len(s) /\ Ch(s, i) \in WORD

NoMatch == [e |-> -1, c |-> 0]

RECURSIVE MatchFrom(_, _, _, _, _)
RECURSIVE LazyFrom(_, _, _, _, _)
\* the match of items j.. of pat at position i of s: e is the position after
\* the match (-1: no match), c the position where the capture group starts
MatchFrom(s, i, pat, j, c) ==
  IF j > Len(pat) THEN [e |-> i, c |-> c]
  ELSE LET it == pat[j] IN
    CASE it.k = "lit" ->
           IF StartsAt(s, i, it.v) THEN MatchFrom(s, i + Len(it.v), pat, j + 1, c)
           ELSE NoMatch
      [] it.k = "rep" ->
           LET n == RunLen(s, i, it.cls, it.max) IN
           IF n >= it.min THEN MatchFrom(s, i + n, pat, j + 1, c) ELSE NoMatch
      [] it.k = "alt" ->
           LET hits == {a \in 1..Len(it.alts) : StartsAt(s, i, it.alts[a])} IN
           IF hits = {} THEN NoMatch
           ELSE LET a == CHOOSE x \in hits : \A y \in hits : x <= y IN
                MatchFrom(s, i + Len(it.alts[a]), pat, j + 1, c)
      [] it.k = "wb" ->
           IF IsWordAt(s, i - 1) # IsWordAt(s, i) THEN MatchFrom(s, i, pat, j + 1, c)
           ELSE NoMatch
      [] it.k = "cap" -> MatchFrom(s, i, pat, j + 1, i)
      [] it.k = "lazy" -> LazyFrom(s, i, pat, j, c)

\* .*? at item j: the rest of the pattern is tried after 0, 1, 2, ... more
\* characters, none of them a line end
LazyFrom(s, i, pat, j, c) ==
  LET m == MatchFrom(s, i, pat, j + 1, c) IN
  IF m.e >= 0 THEN m
  ELSE IF i > Len(s) \/ Ch(s, i) \in {"\n", "\r"} THEN NoMatch
  ELSE LazyFrom(s, i + 1, pat, j, c)

RECURSIVE MatchAllFrom(_, _, _)
\* s.match(/pat/g) || []: the matched strings, left to right, not overlapping
MatchAll(s, pat) == MatchAllFrom(s, pat, 1)
MatchAllFrom(s, pat, i) ==
  IF i > Len(s) THEN <<>>
  ELSE LET m == MatchFrom(s, i, pat, 1, 0) IN
       IF m.e > i THEN <<SubSeq(s, i, m.e - 1)>> \o MatchAllFrom(s, pat, m.e)
       ELSE MatchAllFrom(s, pat, i + 1)

\* the positions where pat matches
MatchStarts(s, pat) == {i \in 1..Len(s) : MatchFrom(s, i, pat, 1, 0).e >= 0}

\* /pat/.test(s)
Test(s, pat) == MatchStarts(s, pat) # {}

\* s.match(/pat/)?.[1]: the capture group of the first match, "" without a match
FirstCapture(s, pat) ==
  LET starts == MatchStarts(s, pat) IN
  IF starts = {} THEN ""
  ELSE LET i == CHOOSE x \in starts : \A y \in starts : x <= y
           m == MatchFrom(s, i, pat, 1, 0)
       IN  SubSeq(s, m.c, m.e - 1)

RECURSIVE ParseDigits(_, _, _)
\* parseInt(s, 10) of a string of digits
ParseInt(s) == ParseDigits(s, 1, 0)
ParseDigits(s, i, acc) ==
  IF i > Len(s) THEN acc
  ELSE ParseDigits(s, i + 1, 10 * acc + IndexOfChar(Digits, Ch(s, i)) - 1)

RECURSIVE SplitFrom(_, _, _, _)
\* s.split(/[seps]+/): the pieces between the runs of separators
Split(s, seps) == SplitFrom(s, seps, 1, "")
SplitFrom(s, seps, i, cur) ==
  IF i > Len(s) THEN <<cur>>
  ELSE IF Ch(s, i) \in seps
       THEN LET n == RunLen(s, i, seps, Len(s)) IN
            <<cur>> \o SplitFrom(s, seps, i + n, "")
       ELSE SplitFrom(s, seps, i + 1, cur \o Ch(s, i))

Lit(v) == [k |-> "lit", v |-> v]
Rep(cls, min, max) == [k |-> "rep", cls |-> cls, min |-> min, max |-> max]
\* cls{min,}: a negative max never runs out
AtLeast(cls, min) == [k |-> "rep", cls |-> cls, min |-> min, max |-> -1]
Plus(cls) == AtLeast(cls, 1)
Star(cls) == AtLeast(cls, 0)
Opt(c) == Rep({c}, 0, 1)
Alt(alts) == [k |-> "alt", alts |-> alts]
Lazy == [k |-> "lazy"]
Wb == [k |-> "wb"]
Cap == [k |-> "cap"]

(***************************************************************************)
(* Report extractors.                                                      *)
(***************************************************************************)
\* /no accidents? reported/i
NoAccidentsRx == <<Lit("no accident"), Opt("s"), Lit(" reported")>>
\* /accident reported/gi
AccidentReportedRx == <<Lit("accident reported")>>
\* /accidents?\/damage/gi
AccidentsDamageRx == <<Lit("accident"), Opt("s"), Lit("/damage")>>
\* /damage reported/gi
DamageReportedRx == <<Lit("damage reported")>>
\* /owner\s+\d+/gi
OwnerHeaderRx == <<Lit("owner"), Plus(WS), Plus(DIGIT)>>
\* /owners?\s*:\s*(\d{1,2})/i
OwnersLineRx ==
  <<Lit("owner"), Opt("s"), Star(WS), Lit(":"), Star(WS), Cap, Rep(DIGIT, 1, 2)>>
\* /owners?:\s*(\d{1,2})/i
OwnersNumRx == <<Lit("owner"), Opt("s"), Lit(":"), Star(WS), Cap, Rep(DIGIT, 1, 2)>>
\* /service\s(record|history|performed|inspected|maintenance)/gi
ServiceRx ==
  <<Lit("service"), Rep(WS, 1, 1),
    Alt(<<"record", "history", "performed", "inspected", "maintenance">>)>>
\* /service (record|history|performed)/gi
ServiceRxUpload == <<Lit("service "), Alt(<<"record", "history", "performed">>)>>
\* /recall/gi
RecallRx == <<Lit("recall")>>
\* /last reported odometer.*?([0-9,]{3,})/i
LastOdometerRx ==
  <<Lit("last reported odometer"), Lazy, Cap, AtLeast(DIGIT \cup {","}, 3)>>
\* /odometer.*?:\s*([0-9,]{3,})/i
OdometerRx ==
  <<Lit("odometer"), Lazy, Lit(":"), Star(WS), Cap, AtLeast(DIGIT \cup {","}, 3)>>

\* (t.match(/pat/gi) || []).length
Count(lower, pat) == Len(MatchAll(lower, pat))

\* the if/else chain over the usage phrases; depth is the number of phrases
\* the variant knows
Usage(lower, depth) ==
  LET phrases == <<"personal vehicle", "commercial vehicle", "fleet vehicle",
                   "rental vehicle", "lease vehicle">>
      names == <<"Personal", "Commercial", "Fleet", "Rental", "Lease">>
      hits == {i \in 1..depth : Includes(lower, phrases[i])}
  IN  IF hits = {} THEN "null"
      ELSE names[CHOOSE i \in hits : \A j \in hits : i <= j]

brandingKeywords ==
  <<"salvage", "rebuilt", "junk", "flood", "lemon", "hail", "fire",
    "odometer rollback", "not actual mileage", "tmu", "structural damage">>

\* the keyword list of the upload handler of part_002
brandingKeywordsUpload ==
  <<"salvage", "rebuilt", "junk", "flood", "lemon", "hail", "fire",
    "not actual mileage", "odometer rollback", "structural damage">>

\* arr.filter(keep), for a sequence of strings
RECURSIVE FilterSeq(_, _, _)
FilterSeq(arr, keep(_), i) ==
  IF i > Len(arr) THEN <<>>
  ELSE (IF keep(arr[i]) THEN <<arr[i]>> ELSE <<>>) \o FilterSeq(arr, keep, i + 1)

InSeq(x, seq) == \E i \in 1..Len(seq) : seq[i] = x

\* Array.from(new Set(seq)), and a Set's insertion order
RECURSIVE Dedup(_, _, _)
Dedup(seq, i, acc) ==
  IF i > Len(seq) THEN acc
  ELSE Dedup(seq, i + 1, IF InSeq(seq[i], acc) THEN acc ELSE Append(acc, seq[i]))

\* brandingKeywords.filter(k => lower.includes(k))
BrandingsIncludes(lower) ==
  LET keep(k) == Includes(lower, k) IN FilterSeq(brandingKeywords, keep, 1)

RECURSIVE KwItems(_, _)
KwItems(words, i) ==
  IF i > Len(words) THEN <<>>
  ELSE (IF i = 1 THEN <<>> ELSE <<Plus(WS)>>) \o <<Lit(words[i])>>
         \o KwItems(words, i + 1)

\* new RegExp('\\b' + kw.replace(/\s+/g, '\\s+') + '\\b', 'i')
NewKwRx(kw) == <<Wb>> \o KwItems(Split(kw, WS), 1) \o <<Wb>>

\* the pattern of each keyword, built once
KwRxOf ==
  [kw \in {brandingKeywords[i] : i \in 1..Len(brandingKeywords)} |-> NewKwRx(kw)]

KwRx(kw) == KwRxOf[kw]

\* /may include|include:/
IsDisclaimer(lower) == Includes(lower, "may include") \/ Includes(lower, "include:")

\* /(brand|title)/
MentionsBrand(line) == Includes(line, "brand") \/ Includes(line, "title")

RECURSIVE MapLines(_, _)
\* t.split(/\n+/).map(s => s.trim().toLowerCase()).filter(Boolean)
MapLines(pieces, i) ==
  IF i > Len(pieces) THEN <<>>
  ELSE LET l == ToLowerCase(Trim(pieces[i])) IN
       (IF l = "" THEN <<>> ELSE <<l>>) \o MapLines(pieces, i + 1)

Lines(t) == MapLines(Split(t, {"\n"}), 1)

\* the keywords the loop over one eligible line adds
LineBrandings(line) ==
  IF ~MentionsBrand(line) \/ IsDisclaimer(line) THEN <<>>
  ELSE LET keep(kw) == Test(line, KwRx(kw)) IN FilterSeq(brandingKeywords, keep, 1)

RECURSIVE LinesBrandings(_, _)
LinesBrandings(lines, i) ==
  IF i > Len(lines) THEN <<>>
  ELSE LineBrandings(lines[i]) \o LinesBrandings(lines, i + 1)

\* /branded\s+title\s*[:\-]?\s*(salvage|...|structural damage)/gi
BrandedTitleRx ==
  <<Lit("branded"), Plus(WS), Lit("title"), Star(WS), Rep({":", "-"}, 0, 1),
    Star(WS),
    Alt(<<"salvage", "rebuilt", "junk", "flood", "lemon", "hail", "fire",
          "not actual mileage", "odometer rollback", "structural damage">>)>>

\* /^branded\\s+title\\s*[:\\-]?\\s*/ as the source spells it: each \\ is a
\* backslash character and the s after it an ordinary letter
BrandedPrefixRx ==
  <<Lit("branded\\"), Plus({"s"}), Lit("title\\"), Star({"s"}),
    Rep({":", "\\", "-"}, 0, 1), Lit("\\"), Star({"s"})>>

\* m.toLowerCase().replace(/^branded\\s+title\\s*[:\\-]?\\s*/, '').trim()
BrandedName(m) ==
  LET l == ToLowerCase(m)
      hit == MatchFrom(l, 1, BrandedPrefixRx, 1, 0)
  IN  Trim(IF hit.e >= 0 THEN SubSeq(l, hit.e, Len(l)) ELSE l)

RECURSIVE MapBranded(_, _)
MapBranded(ms, i) ==
  IF i > Len(ms) THEN <<>>
  ELSE (IF BrandedName(ms[i]) = "" THEN <<>> ELSE <<BrandedName(ms[i])>>)
         \o MapBranded(ms, i + 1)

\* brandSet of extractCarfaxSummary, part_005:416-432
BrandingsByLine(t, lower) ==
  Dedup(LinesBrandings(Lines(t), 1)
          \o MapBranded(MatchAll(lower, BrandedTitleRx), 1), 1, <<>>)

\* the forEach of POST /api/carfax/upload, part_002:70-74
BrandingsUpload(text, lower) ==
  LET folded == ToLowerCase(text)
      keep(kw) == Test(folded, KwRx(kw)) /\ ~IsDisclaimer(lower)
  IN  FilterSeq(brandingKeywordsUpload, keep, 1)

OrNull(str) == IF str = "" THEN "null" ELSE str

\* extractCarfaxSummary, part_001:49-89
extractCarfaxSummary(text) ==
  LET t == Strip(text, "\r")
      lower == ToLowerCase(t)
      a1 == Count(lower, AccidentReportedRx)
      a2 == Count(lower, AccidentsDamageRx)
      ownerHeader == Count(lower, OwnerHeaderRx)
      ownersLine == FirstCapture(lower, OwnersLineRx)
      m1 == FirstCapture(lower, LastOdometerRx)
      m2 == FirstCapture(lower, OdometerRx)
  IN  [accidents |-> IF Test(lower, NoAccidentsRx) THEN 0 ELSE Max(a1, a2),
       damageReports |-> Count(lower, DamageReportedRx),
       owners |-> IF ownersLine # "" THEN Max(Max(0, ownerHeader), ParseInt(ownersLine))
                  ELSE Max(0, ownerHeader),
       serviceRecords |-> Count(lower, ServiceRx),
       recalls |-> Count(lower, RecallRx),
       lastOdometer |-> IF m1 # "" THEN m1 ELSE OrNull(m2),
       usage |-> Usage(lower, 5),
       brandings |-> BrandingsIncludes(lower)]

\* the distinct strings of ownerMatches.map(s => s.toLowerCase())
DistinctCount(ms) == Cardinality({ToLowerCase(ms[i]) : i \in 1..Len(ms)})

\* parseCarfaxText, server.js:42-69
parseCarfaxText(text) ==
  LET lower == ToLowerCase(text)
      ownerMatches == MatchAll(lower, OwnerHeaderRx)
      headers == IF Len(ownerMatches) > 0 THEN DistinctCount(ownerMatches) ELSE 0
      ownersNumMatch == FirstCapture(lower, OwnersNumRx)
  IN  [accidents |-> Count(lower, AccidentReportedRx),
       damageReports |-> Count(lower, DamageReportedRx),
       owners |-> IF ownersNumMatch # "" THEN Max(headers, ParseInt(ownersNumMatch))
                  ELSE headers,
       serviceRecords |-> Count(lower, ServiceRx),
       recalls |-> Count(lower, RecallRx),
       lastOdometer |-> OrNull(FirstCapture(lower, LastOdometerRx)),
       usage |-> Usage(lower, 3),
       brandings |-> Dedup(BrandingsIncludes(lower), 1, <<>>)]

\* extractCarfaxSummary, part_005:400-435
extractCarfaxSummaryByLine(text) ==
  LET t == Strip(text, "\r")
      lower == ToLowerCase(t)
      label == FirstCapture(lower, OwnersLineRx)
      m1 == FirstCapture(lower, LastOdometerRx)
  IN  [accidents |-> Count(lower, AccidentReportedRx),
       damageReports |-> Count(lower, DamageReportedRx),
       owners |-> Max(Count(lower, OwnerHeaderRx),
                      IF label # "" THEN ParseInt(label) ELSE 0),
       serviceRecords |-> Count(lower, ServiceRx),
       recalls |-> Count(lower, RecallRx),
       lastOdometer |-> IF m1 # "" THEN m1
                        ELSE OrNull(FirstCapture(lower, OdometerRx)),
       usage |-> Usage(lower, 5),
       brandings |-> BrandingsByLine(t, lower)]

\* the summary POST /api/carfax/upload of part_002 builds inline
uploadSummary(text) ==
  LET lower == ToLowerCase(text) IN
  [damageReports |-> Count(lower, DamageReportedRx),
   serviceRecords |-> Count(lower, ServiceRxUpload),
   recalls |-> Count(lower, RecallRx),
   lastOdometer |-> OrNull(FirstCapture(lower, LastOdometerRx)),
   usage |-> Usage(lower, 2),
   brandings |-> BrandingsUpload(text, lower)]

RECURSIVE ToUpperCase(_)
\* String.prototype.toUpperCase
ToUpperCase(s) ==
  IF s = "" THEN ""
  ELSE (IF Ch(s, 1) \in Chars(LowerCase)
        THEN Ch(UpperCase, IndexOfChar(LowerCase, Ch(s, 1))) ELSE Ch(s, 1))
         \o ToUpperCase(SubSeq(s, 2, Len(s)))

\* /\b([A-Z]{2})\s+Title/gi
StateTitleRx == <<Wb, Rep(Chars(LowerCase), 2, 2), Plus(WS), Lit("title")>>

\* Array.from(new Set(matches.map(s => s.slice(0,2).toUpperCase())))
States(lower) ==
  LET ms == MatchAll(lower, StateTitleRx) IN
  Dedup([i \in 1..Len(ms) |-> ToUpperCase(SubSeq(ms[i], 1, 2))], 1, <<>>)

\* acc2 = (t.match(/accidents?\/damage/i) || []).length, part_004:60: without
\* the g flag the match is the array of the one whole match
Acc2(lower) == IF Test(lower, AccidentsDamageRx) THEN 1 ELSE 0

\* extractCarfaxSummary, part_004:51-105; states is left out when empty
extractCarfaxSummaryStates(text) ==
  LET t == Strip(text, "\r")
      lower == ToLowerCase(t)
      acc1 == Count(lower, AccidentReportedRx)
      ownerHeader == Count(lower, OwnerHeaderRx)
      ownersLine == FirstCapture(lower, OwnersLineRx)
      odo1 == FirstCapture(lower, LastOdometerRx)
      odo2 == FirstCapture(lower, OdometerRx)
      states == States(lower)
      summary ==
        [accidents |-> IF Test(lower, NoAccidentsRx) THEN 0
                       ELSE Max(acc1, Acc2(lower)),
         damageReports |-> Count(lower, DamageReportedRx),
         owners |-> IF ownersLine # ""
                    THEN Max(Max(0, ownerHeader), ParseInt(ownersLine))
                    ELSE Max(0, ownerHeader),
         serviceRecords |-> Count(lower, ServiceRx),
         recalls |-> Count(lower, RecallRx),
         lastOdometer |-> IF odo1 # "" THEN odo1 ELSE OrNull(odo2),
         usage |-> Usage(lower, 5),
         brandings |-> Dedup(BrandingsIncludes(lower), 1, <<>>)]
  IN  IF states = <<>> THEN summary ELSE summary @@ [states |-> states]

(***************************************************************************)
(* Report texts and the handlers that summarize them.                      *)
(***************************************************************************)
AccidentFrags ==
  {"No accidents reported\n", "No accident reported.\n", "Accident reported 2019\n",
   "Accidents/Damage\n"}
OwnerFrags == {"Owner 1\n", "Owner 2\n", "Owner 2\nOwner 3\n", "Owners: 5\n"}
BrandFrags ==
  {"Title may include: salvage, flood\n", "Title: Salvage Brand\n",
   "Branded Title - Flood\n", "Rebuilt engine\n"}
OtherFrags ==
  {"Service record\n", "Last reported odometer reading: 45,000\n",
   "Fleet vehicle, damage reported\n", " \n"}

RECURSIVE TextsOf(_, _)
\* the texts made of at most n fragments of frags
TextsOf(frags, n) ==
  IF n = 0 THEN {""}
  ELSE LET shorter == TextsOf(frags, n - 1) IN
       shorter \cup {t \o f : t \in shorter, f \in frags}

Texts ==
  TextsOf(AccidentFrags, MaxFrags) \cup TextsOf(OwnerFrags, MaxFrags)
    \cup TextsOf(BrandFrags, MaxFrags) \cup TextsOf(OtherFrags, MaxFrags)

Pending == res.op = "none"

Answer(r) == /\ res' = r
             /\ UNCHANGED <<S, file, req, dataFile, now>>

\* POST /api/carfax/summarize-text, part_001:153-160
SummarizeText ==
  /\ Pending /\ req.op = "text"
  /\ IF Trim(req.text) = ""
     THEN Answer([op |-> "carfax/summarize-text", variant |-> "paste",
                  status |-> 400, ok |-> FALSE, error |-> "no_text"])
     ELSE Answer([op |-> "carfax/summarize-text", variant |-> "paste",
                  status |-> 200, ok |-> TRUE,
                  summary |-> extractCarfaxSummary(req.text)])

\* POST /api/carfax/upload, part_001:138-150; pdfParse gives the text or throws
CarfaxUploadPdf ==
  /\ Pending /\ req.op = "text"
  /\ \/ Answer([op |-> "carfax/upload", variant |-> "pdf", status |-> 200,
                ok |-> TRUE,
                summary |-> IF Trim(req.text) # "" THEN extractCarfaxSummary(req.text)
                            ELSE [note |-> "no_text_extracted"]])
     \/ Answer([op |-> "carfax/upload", variant |-> "pdf", status |-> 200,
                ok |-> TRUE, summary |-> [error |-> "parse_failed"]])

\* POST /api/carfax/upload, server.js:114-128
CarfaxUploadParse ==
  /\ Pending /\ req.op = "text"
  /\ \/ Answer([op |-> "carfax/upload", variant |-> "parse", status |-> 200,
                ok |-> TRUE, summary |-> parseCarfaxText(req.text)])
     \/ Answer([op |-> "carfax/upload", variant |-> "parse", status |-> 200,
                ok |-> TRUE, summary |-> [error |-> "parse_failed"]])

\* POST /api/carfax/upload, part_005:437-449
CarfaxUploadByLine ==
  /\ Pending /\ req.op = "text"
  /\ Answer([op |-> "carfax/upload", variant |-> "byline", status |-> 200,
             ok |-> TRUE, summary |-> extractCarfaxSummaryByLine(req.text)])

\* POST /api/carfax/upload, part_002:55-77
CarfaxUploadText ==
  /\ Pending /\ req.op = "text"
  /\ Answer([op |-> "carfax/upload", variant |-> "text", status |-> 200,
             ok |-> TRUE, summary |-> uploadSummary(req.text)])

\* POST /api/carfax/summarize-text, part_004:229-238
SummarizeTextStates ==
  /\ Pending /\ req.op = "text"
  /\ IF Trim(req.text) = ""
     THEN Answer([op |-> "carfax/summarize-text", variant |-> "paste-states",
                  status |-> 400, ok |-> FALSE, error |-> "no_text"])
     ELSE Answer([op |-> "carfax/summarize-text", variant |-> "paste-states",
                  status |-> 200, ok |-> TRUE,
                  summary |-> extractCarfaxSummaryStates(req.text)])

\* POST /api/carfax/upload, part_004:240-252
CarfaxUploadStates ==
  /\ Pending /\ req.op = "text"
  /\ \/ Answer([op |-> "carfax/upload", variant |-> "pdf-states",
                status |-> 200, ok |-> TRUE,
                summary |-> IF Trim(req.text) # ""
                            THEN extractCarfaxSummaryStates(req.text)
                            ELSE [note |-> "no_text_extracted"]])
     \/ Answer([op |-> "carfax/upload", variant |-> "pdf-states",
                status |-> 200, ok |-> TRUE,
                summary |-> [error |-> "parse_failed"]])

(***************************************************************************)
(* Maintenance gap inference, adjusted wholesale, customer report totals   *)
(* (part_001).                                                             *)
(***************************************************************************)
\* new Date().getFullYear()
CurrentYear == 2026

COST_MAP ==
  [l \in {"Oil change", "Cabin filter", "Engine air filter", "Tire rotation",
          "Wheel alignment", "Battery", "Brake fluid exchange", "Coolant service",
          "Transmission service", "Spark plugs", "Wiper blades"} |->
     CASE l = "Oil change" -> 60
       [] l = "Cabin filter" -> 40
       [] l = "Engine air filter" -> 45
       [] l = "Tire rotation" -> 30
       [] l = "Wheel alignment" -> 110
       [] l = "Battery" -> 180
       [] l = "Brake fluid exchange" -> 120
       [] l = "Coolant service" -> 180
       [] l = "Transmission service" -> 250
       [] l = "Spark plugs" -> 250
       [] l = "Wiper blades" -> 30]

\* (year && year > 1900 && year <= now) ? (now - year) : 0
Age(year) ==
  IF year # 0 /\ year > 1900 /\ year <= CurrentYear THEN CurrentYear - year ELSE 0

\* Math.max(2, Math.round(age * 1.2))
ExpectedSvc(age) == Max(2, MathRound(12 * age, 10))

\* Number(summary?.serviceRecords || 0)
SvcCount(summary) ==
  IF "serviceRecords" \in DOMAIN summary THEN OrZero(summary.serviceRecords) ELSE 0

\* push(label, rationale)
GapItem(label, rationale) ==
  [label |-> label, rationale |-> rationale, source |-> "carfax_gap"]

\* noneOf(...kws)
NoneOf(t, kws) == ~\E kw \in kws : Includes(t, kw)

\* the pushes of the low-service-history rule, part_001:176-180
LowHistoryItems(svcCount, expectedSvc) ==
  IF 2 * svcCount < expectedSvc
  THEN <<GapItem("Oil change",
                 "Low service history (" \o ToString(svcCount) \o "/"
                   \o ToString(expectedSvc) \o " expected)"),
         GapItem("Engine air filter", "Low service history"),
         GapItem("Cabin filter", "Low service history")>>
  ELSE <<>>

\* the pushes of the no-mention rules, part_001:181-187
NoMentionItems(t, m) ==
  (IF NoneOf(t, {"oil change", "engine oil", "changed oil"})
   THEN <<GapItem("Oil change", "No oil change found in Carfax text")>> ELSE <<>>)
  \o (IF m >= 60000
          /\ NoneOf(t, {"transmission service", "transmission fluid", "trans fluid"})
      THEN <<GapItem("Transmission service", ">=60k mi and no service noted")>>
      ELSE <<>>)
  \o (IF m >= 60000 /\ NoneOf(t, {"brake fluid"})
      THEN <<GapItem("Brake fluid exchange", ">=60k mi and no service noted")>>
      ELSE <<>>)
  \o (IF m >= 60000
          /\ NoneOf(t, {"coolant service", "coolant flush", "radiator flushed"})
      THEN <<GapItem("Coolant service", ">=60k mi and no service noted")>>
      ELSE <<>>)
  \o (IF m >= 90000 /\ NoneOf(t, {"spark plug"})
      THEN <<GapItem("Spark plugs", ">=90k mi and no plugs noted")>> ELSE <<>>)

\* inferMissingMaintenance, part_001:163-189
inferMissingMaintenance(summary, text, mileage, year) ==
  LowHistoryItems(SvcCount(summary), ExpectedSvc(Age(year)))
    \o NoMentionItems(ToLowerCase(text), OrZero(mileage))

\* COST_MAP[it.label] ?? 100, in units
Amount(label) == IF label \in DOMAIN COST_MAP THEN D(COST_MAP[label]) ELSE D(100)

\* items.map(it => ({ ...it, amount: ... }))
Priced(items) ==
  [i \in 1..Len(items) |->
     [label |-> items[i].label, rationale |-> items[i].rationale,
      source |-> items[i].source, amount |-> Amount(items[i].label)]]

RECURSIVE SumAmounts(_, _)
\* arr.reduce((s, it) => s + Number(it.amount || 0), 0)
SumAmounts(arr, i) ==
  IF i > Len(arr) THEN 0 ELSE OrZero(arr[i].amount) + SumAmounts(arr, i + 1)

\* Math.max(0, Math.round(Number(baseWholesale || 0) - deduction))
AdjustedWholesale(baseWholesale, deduction) ==
  Max(0, RoundUnits(OrZero(baseWholesale) - deduction))

GapFrags ==
  {"Oil change\n", "Trans fluid, brake fluid\n", "Coolant flush, spark plugs\n"}
GapTexts == TextsOf(GapFrags, MaxFrags)
SvcCounts == {0, 1, 5, 6}
Mileages == {0, 59999, 65000, 90000}
Years == {0, 1900, CurrentYear - 10, CurrentYear + 1}
BaseWholesales == {0, D(100) + 1, D(12040)}

AdjustedBodies ==
  [op : {"value/adjusted"}, baseWholesale : BaseWholesales,
   carfaxSummary : {[serviceRecords |-> n] : n \in SvcCounts},
   carfaxText : GapTexts, mileage : Mileages, year : Years]

\* POST /api/value/adjusted, part_001:192-201
ValueAdjusted ==
  /\ Pending /\ req.op = "value/adjusted"
  /\ LET items == inferMissingMaintenance(req.carfaxSummary, req.carfaxText,
                                          req.mileage, req.year)
         priced == Priced(items)
         deduction == SumAmounts(priced, 1)
     IN  Answer([op |-> "value/adjusted", ok |-> TRUE,
                 baseWholesale |-> OrZero(req.baseWholesale),
                 deduction |-> deduction,
                 adjustedWholesale |->
                   AdjustedWholesale(req.baseWholesale, deduction),
                 items |-> priced])

\* line items a client adds as reconditioning costs: its own, and the
\* suggestions of the evidence scorer (suggestCosts, part_001:766-777)
ReconItems ==
  {[label |-> "Tires", amount |-> D(400)],
   [label |-> "Oil change", amount |-> D(60)]}

\* the longest list of additional costs
MaxRecon == 2

RECURSIVE SeqsUpTo(_, _)
SeqsUpTo(set, n) ==
  IF n = 0 THEN {<<>>}
  ELSE LET shorter == SeqsUpTo(set, n - 1) IN
       shorter \cup {Append(q, x) : q \in shorter, x \in set}

\* POST /api/report/customer, part_001:371-435: the totals printed in the
\* report, for a body made of the last adjusted-wholesale answer and the
\* client's additional costs
ReportCustomer ==
  /\ res.op = "value/adjusted"
  /\ \E additionalCosts \in SeqsUpTo(ReconItems, MaxRecon) :
       LET reconTotal == SumAmounts(additionalCosts, 1) IN
       Answer([op |-> "report/customer", ok |-> TRUE,
               adjustedWholesale |-> res.adjustedWholesale,
               deduction |-> res.deduction, gapItems |-> res.items,
               additionalCosts |-> additionalCosts, reconTotal |-> reconTotal,
               targetBuy |-> Max(0, res.adjustedWholesale - reconTotal)])

(***************************************************************************)
(* Evidence scorer (part_001): identity resolution, record fetches,        *)
(* bucketing, scoring, ranking, web corroboration, suggested costs.        *)
(***************************************************************************)
buckets ==
  <<[key |-> "engine", label |-> "Engine / Oil consumption"],
    [key |-> "trans", label |-> "Transmission"],
    [key |-> "brake", label |-> "Brakes"],
    [key |-> "air bag", label |-> "Airbags / SRS"],
    [key |-> "electr", label |-> "Electrical"],
    [key |-> "steering", label |-> "Steering"],
    [key |-> "susp", label |-> "Suspension"],
    [key |-> "fuel", label |-> "Fuel system"],
    [key |-> "ac", label |-> "HVAC / A/C"],
    [key |-> "paint", label |-> "Paint / Exterior"]>>

\* JavaScript truthiness of a string or null; null is "null"
Truthy(x) == x \notin {"null", ""}

\* a || b
Or(a, b) == IF Truthy(a) THEN a ELSE b

\* parseInt(s, 10): the leading digits; NaN, when there are none, is -1
parseInt(str) ==
  LET n == RunLen(str, 1, DIGIT, Len(str)) IN
  IF n = 0 THEN -1 ELSE ParseInt(SubSeq(str, 1, n))

\* truthiness of a year; a year of null, NaN or 0 is kept as 0
TruthyYear(y) == y > 0

\* an answer of fetch(...).json(), and the failure of either call
Json(j) == [failed |-> FALSE, json |-> j]
Failed == [failed |-> TRUE]

\* r?.f || ''
Field(r, f) == IF f \in DOMAIN r THEN r[f] ELSE ""

\* parts[i] of the vehicle label, undefined read as ''
Part(parts, i) == IF i <= Len(parts) THEN parts[i] ELSE ""

\* the year, make and model read from the vehicle label, part_001:657-662
LabelIdentity(vehicle) ==
  LET parts == Split(Trim(vehicle), WS)
      y == parseInt(parts[1])
  IN  IF y # -1
      THEN [year |-> y, make |-> Or(Part(parts, 2), "null"),
            model |-> Or(Part(parts, 3), "null")]
      ELSE [year |-> 0, make |-> "null", model |-> "null"]

Resolved(id) == TruthyYear(id.year) /\ Truthy(id.make) /\ Truthy(id.model)

\* the VIN lookup, part_001:663-672; the answer carries j.Results[0] || {}
Identity(vehicle, vin, vpic) ==
  LET id == LabelIdentity(vehicle) IN
  IF ~Resolved(id) /\ Truthy(vin) /\ ~vpic.failed
  THEN LET row == vpic.json
           y == parseInt(Field(row, "ModelYear"))
       IN  [year |-> IF TruthyYear(id.year) THEN id.year
                     ELSE IF TruthyYear(y) THEN y ELSE 0,
            make |-> Or(Or(id.make, Field(row, "Make")), "null"),
            model |-> Or(Or(id.model, Field(row, "Model")), "null")]
  ELSE id

\* a fetch whose failure leaves one record behind
ResultsOrSample(a) ==
  IF ~a.failed /\ "results" \in DOMAIN a.json THEN a.json.results
  ELSE <<[Component |-> "ENGINE", component |-> "ENGINE"]>>

\* if (j && j.results) list = j.results; getJSON gives null on a failure
Results(a) ==
  IF ~a.failed /\ "results" \in DOMAIN a.json THEN a.json.results ELSE <<>>

\* tsbs = await r.json(); if (!Array.isArray(tsbs)) tsbs = []; catch: []
TsbList(a) == IF a.failed \/ ~a.isArray THEN <<>> ELSE a.json

ComplaintTxt(c) ==
  ToLowerCase(Field(c, "component") \o " " \o Field(c, "summary") \o " "
                \o Field(c, "narrative"))

RecallTxt(r) == ToLowerCase(Field(r, "Component") \o " " \o Field(r, "Summary"))

TsbTxt(t) ==
  ToLowerCase(Field(t, "component") \o " " \o Field(t, "system_type") \o " "
                \o Field(t, "summary"))

lowerIncludes(txt, needle) == Includes(ToLowerCase(txt), needle)

RECURSIVE buckCounts(_, _, _)
\* buckCounts.set(b.label, (buckCounts.get(b.label) || 0) + 1), per record
buckCounts(txts, key, i) ==
  IF i > Len(txts) THEN 0
  ELSE (IF lowerIncludes(txts[i], key) THEN 1 ELSE 0) + buckCounts(txts, key, i + 1)

\* buckRecall.set(b.label, true) / buckTSB.set(b.label, true)
buckFlag(txts, key) == \E i \in 1..Len(txts) : lowerIncludes(txts[i], key)

RECURSIVE Join(_, _)
\* Array.prototype.join
Join(parts, sep) ==
  IF parts = <<>> THEN ""
  ELSE IF Len(parts) = 1 THEN parts[1]
  ELSE parts[1] \o sep \o Join(Tail(parts), sep)

\* the rationale of a bucket, part_001:733-737
Rationale(hasT, hasR, c) ==
  Join((IF hasT THEN <<"TSB present (+3)">> ELSE <<>>)
         \o (IF hasR THEN <<"Recall mention (+2)">> ELSE <<>>)
         \o (IF c # 0
             THEN <<ToString(c) \o " complaints (~+" \o ToString(MathFloor(c, 10))
                  \o ")">>
             ELSE <<>>),
       " · ")

\* a weighting that forgets the recall term
ScoreNoRecall(hasT, hasR, c) == (IF hasT THEN 3 ELSE 0) + MathFloor(c, 10)

\* (hasT ? 3 : 0) + (hasR ? 2 : 0) + Math.floor(c / 10)
Score(hasT, hasR, c) ==
  (IF hasT THEN 3 ELSE 0) + (IF hasR THEN 2 ELSE 0) + MathFloor(c, 10)

\* buckets.map(b => ...), part_001:728-738
Mapped(complaints, recalls, tsbs) ==
  LET ctxts == [i \in 1..Len(complaints) |-> ComplaintTxt(complaints[i])]
      rtxts == [i \in 1..Len(recalls) |-> RecallTxt(recalls[i])]
      ttxts == [i \in 1..Len(tsbs) |-> TsbTxt(tsbs[i])]
  IN  [b \in 1..Len(buckets) |->
         LET c == buckCounts(ctxts, buckets[b].key, 1)
             hasT == buckFlag(ttxts, buckets[b].key)
             hasR == buckFlag(rtxts, buckets[b].key)
         IN  [label |-> buckets[b].label, complaints |-> c, tsb |-> hasT,
              recall |-> hasR, score |-> Score(hasT, hasR, c),
              rationale |-> Rationale(hasT, hasR, c)]]

RECURSIVE Positive(_, _)
\* .filter(x => x.score > 0)
Positive(arr, i) ==
  IF i > Len(arr) THEN <<>>
  ELSE (IF arr[i].score > 0 THEN <<arr[i]>> ELSE <<>>) \o Positive(arr, i + 1)

\* x put behind every entry that does not score less: the sort is stable
InsertByScore(sorted, x) ==
  LET n == Cardinality({i \in 1..Len(sorted) : sorted[i].score >= x.score}) IN
  SubSeq(sorted, 1, n) \o <<x>> \o SubSeq(sorted, n + 1, Len(sorted))

RECURSIVE SortByScore(_, _, _)
\* .sort((a, b) => b.score - a.score)
SortByScore(arr, i, sorted) ==
  IF i > Len(arr) THEN sorted
  ELSE SortByScore(arr, i + 1, InsertByScore(sorted, arr[i]))

\* a ranking that keeps every entry
NoSlice(arr) == arr

\* .slice(0, 5)
Slice5(arr) == SubSeq(arr, 1, Min(5, Len(arr)))

\* the ranked list before web corroboration, part_001:728-739
Scored(mapped) == Slice5(SortByScore(Positive(mapped, 1), 1, <<>>))

allow ==
  <<"nhtsa.gov", "carcomplaints.com", "repairpal.com", "consumerreports.org",
    "iihs.org", "edmunds.com", "kbb.com", "cars.com", "autorecalls">>

\* new URL(link).hostname: "invalid" when the constructor throws
Hostname(link) ==
  LET starts == {i \in 1..Len(link) : StartsAt(link, i, "://")} IN
  IF starts = {} THEN "invalid"
  ELSE LET i == CHOOSE k \in starts : \A m \in starts : k <= m
           rest == SubSeq(link, i + 3, Len(link))
           n == RunLen(rest, 1, Chars(rest) \ {"/", "?", "#", ":"}, Len(rest))
       IN  IF i = 1 \/ n = 0 THEN "invalid" ELSE ToLowerCase(SubSeq(rest, 1, n))

\* allow.some(d => u.hostname.includes(d)), false when new URL throws
Allowed(r) ==
  LET h == Hostname(Field(r, "link")) IN
  h # "invalid" /\ \E d \in 1..Len(allow) : Includes(h, allow[d])

RECURSIVE Snippets(_, _)
\* the lower-cased snippets of the allowed results, in order
Snippets(results, i) ==
  IF i > Len(results) THEN <<>>
  ELSE (IF Allowed(results[i]) THEN <<ToLowerCase(Field(results[i], "snippet"))>>
        ELSE <<>>) \o Snippets(results, i + 1)

\* scored.findIndex(s => s.label === label), 0 when there is none
FindIndex(scored, label) ==
  IF \E i \in 1..Len(scored) : scored[i].label = label
  THEN CHOOSE i \in 1..Len(scored) :
         /\ scored[i].label = label
         /\ \A k \in 1..(i - 1) : scored[k].label # label
  ELSE 0

\* a corroboration that raises every ranked bucket
CorroborateAll(scored, snippets, b, webSignals) ==
  [scored |-> [i \in 1..Len(scored) |-> [scored[i] EXCEPT !.score = @ + 1]],
   webSignals |-> webSignals]

RECURSIVE Corroborate(_, _, _, _)
\* buckets.forEach(b => { if (snippets.includes(b.key)) ... }), part_001:754-760
Corroborate(scored, snippets, b, webSignals) ==
  IF b > Len(buckets) THEN [scored |-> scored, webSignals |-> webSignals]
  ELSE IF Includes(snippets, buckets[b].key)
  THEN LET idx == FindIndex(scored, buckets[b].label) IN
       IF idx > 0
       THEN Corroborate(
              [scored EXCEPT ![idx].score = @ + 1,
                             ![idx].rationale = @ \o " · web corroboration (+1)"],
              snippets, b + 1, webSignals)
       ELSE Corroborate(scored, snippets, b + 1,
                        Append(webSignals, buckets[b].label))
  ELSE Corroborate(scored, snippets, b + 1, webSignals)

\* a corroboration whose failed search empties the ranking
WebOrNothing(scored, key, serp) ==
  [scored |-> IF serp.failed THEN <<>> ELSE scored, webSignals |-> <<>>]

\* the web corroboration block, part_001:742-763
Web(scored, key, serp) ==
  IF ~Truthy(key) THEN [scored |-> scored, webSignals |-> <<>>]
  ELSE LET found == IF "organic_results" \in DOMAIN serp.json
                    THEN serp.json.organic_results ELSE <<>>
           done == IF serp.failed THEN [scored |-> scored, webSignals |-> <<>>]
                   ELSE Corroborate(scored, Join(Snippets(found, 1), " "),
                                    1, <<>>)
       IN  [scored |-> SortByScore(done.scored, 1, <<>>),
            webSignals |-> done.webSignals]

\* out.push({ label, amount, rationale, source: 'risk_map' })
Hint(lbl, amt, why) ==
  [label |-> lbl, amount |-> D(amt), rationale |-> why, source |-> "risk_map"]

\* suggestCosts, part_001:766-777
suggestCosts(label) ==
  IF StartsAt(label, 1, "Engine")
  THEN <<Hint("Engine air filter", 45, "Engine bucket"),
         Hint("Oil change", 60, "Engine bucket")>>
  ELSE IF label = "Transmission"
  THEN <<Hint("Transmission service", 250, "Trans bucket")>>
  ELSE IF label = "Brakes"
  THEN <<Hint("Brakes (pads/rotors est.)", 450, "Brakes bucket")>>
  ELSE IF label = "Electrical" THEN <<Hint("Battery", 180, "Electrical bucket")>>
  ELSE IF label = "Steering"
  THEN <<Hint("Wheel alignment", 110, "Steering bucket")>>
  ELSE IF label = "Suspension"
  THEN <<Hint("Suspension inspection", 120, "Suspension bucket")>>
  ELSE IF label = "HVAC / A/C" THEN <<Hint("A/C service", 150, "HVAC bucket")>>
  ELSE <<>>

RECURSIVE FlatMapCosts(_, _)
\* scored.flatMap(s => suggestCosts(s.label))
FlatMapCosts(scored, i) ==
  IF i > Len(scored) THEN <<>>
  ELSE suggestCosts(scored[i].label) \o FlatMapCosts(scored, i + 1)

\* what the vehicle label and the VIN of a request can be
Vehicles == {"2015 Honda Accord", "2015 Honda", " Honda Accord EX"}
Vins == {"", "1HGCR2F3XFA000001"}

\* answers of the VIN decoder
VpicAnswers ==
  {Failed,
   Json([ModelYear |-> "2015", Make |-> "HONDA", Model |-> "Accord"])}

\* n copies of a record
Repeat(x, n) == [i \in 1..n |-> x]

EngineComplaint == [component |-> "ENGINE", summary |-> "Oil"]
BrakeComplaint == [component |-> "Brakes", narrative |-> "Traction"]

\* answers of the complaints service
ComplaintAnswers ==
  {Failed}
    \cup {Json([results |-> Repeat(EngineComplaint, n[1])
                              \o Repeat(BrakeComplaint, n[2])]) :
            n \in {<<0, 0>>, <<9, 0>>, <<23, 0>>, <<23, 10>>}}

EngineRecall == [Component |-> "ENGINE AND ENGINE COOLING", Summary |-> "Stall"]
AirBagRecall ==
  [Component |-> "AIR BAGS", Summary |-> "Inflator power; fuel leak"]

\* answers of the recalls service
RecallAnswers ==
  {Failed, Json([results |-> <<>>]),
   Json([results |-> <<AirBagRecall, EngineRecall>>])}

EngineTsb == [component |-> "ENGINE", summary |-> "Oil consumption"]
ChassisTsb ==
  [component |-> "ELECTRICAL", system_type |-> "Steering, suspension",
   summary |-> "Transmission; repaint"]

\* answers of the bulletin service; one is JSON that is no array
TsbAnswers ==
  {Failed, [failed |-> FALSE, isArray |-> FALSE],
   [failed |-> FALSE, isArray |-> TRUE, json |-> <<ChassisTsb, EngineTsb>>]}

\* process.env.SERP_API_KEY || ''
SerpKeys == {"", "key"}

TrustedResult ==
  [link |-> "https://www.nhtsa.gov/recalls", snippet |-> "Engine, HVAC and brake"]
LookalikeResult ==
  [link |-> "https://nhtsa.gov.example.net/x", snippet |-> "Paint peeling"]
RelativeResult == [link |-> "nhtsa.gov/recalls", snippet |-> "Fuel pump"]

\* answers of the web search
SerpAnswers ==
  {Failed, Json([error |-> "quota"]),
   Json([organic_results |-> <<RelativeResult, LookalikeResult, TrustedResult>>])}

\* a request, the configured search key, and what the services answer while
\* the request is served
EvidenceBodies ==
  [op : {"evidence/score"}, vin : Vins, vehicle : Vehicles, vpic : VpicAnswers,
   rec : RecallAnswers, cmp : ComplaintAnswers, tsbs : TsbAnswers,
   SERP_API_KEY : SerpKeys, serp : SerpAnswers]

\* POST /api/evidence/score, part_001:652-792
EvidenceScore ==
  /\ Pending /\ req.op = "evidence/score"
  /\ LET id == Identity(req.vehicle, req.vin, req.vpic) IN
     IF ~Resolved(id)
     THEN Answer([op |-> "evidence/score", variant |-> "full", status |-> 400,
                  ok |-> FALSE, error |-> "need_year_make_model"])
     ELSE LET recalls == Results(req.rec)
              complaints == Results(req.cmp)
              tsbs == TsbList(req.tsbs)
              mapped == Mapped(complaints, recalls, tsbs)
              scored == Scored(mapped)
              web == Web(scored, req.SERP_API_KEY, req.serp)
          IN  Answer([op |-> "evidence/score", variant |-> "full",
                      status |-> 200, ok |-> TRUE, vehicle |-> id,
                      counts |-> [recalls |-> Len(recalls),
                                  complaints |-> Len(complaints),
                                  tsbs |-> Len(tsbs)],
                      topRisks |-> web.scored,
                      recommendations |-> FlatMapCosts(web.scored, 1),
                      source |-> "nhtsa+tsb (+web if configured)",
                      locals |-> [mapped |-> mapped, scored |-> scored,
                                  webSignals |-> web.webSignals]])

RISK_TAGS ==
  <<[key |-> "Engine / Oil consumption",
     words |-> <<"engine", "oil", "pcv", "valve cover", "consumption">>],
    [key |-> "Transmission",
     words |-> <<"transmission", "cvt", "gear", "shift", "clutch">>],
    [key |-> "Electrical",
     words |-> <<"electrical", "alternator", "battery", "wiring", "power">>],
    [key |-> "Brakes", words |-> <<"brake", "abs", "rotor", "pad">>],
    [key |-> "HVAC / A/C", words |-> <<"hvac", "a/c", "ac", "heater", "blend">>]>>

\* decodeVIN, part_005:391-398
decodeVIN(vpic) ==
  LET row == IF vpic.failed THEN [x \in {} |-> ""] ELSE vpic.json IN
  [year |-> Or(Field(row, "ModelYear"), "null"),
   make |-> Or(Field(row, "Make"), "null"),
   model |-> Or(Field(row, "Model"), "null"),
   bodyClass |-> Or(Field(row, "BodyClass"), "null")]

\* recallResults = j?.results || j?.Results || [], [] when fetch throws
RecallResults(a) ==
  IF a.failed THEN <<>>
  ELSE IF "results" \in DOMAIN a.json THEN a.json.results
  ELSE IF "Results" \in DOMAIN a.json THEN a.json.Results
  ELSE <<>>

\* String(rc.Component || rc.Summary || rc.Consequence || '').toLowerCase()
TagTxt(rc) ==
  ToLowerCase(Or(Or(Or(Field(rc, "Component"), Field(rc, "Summary")),
                    Field(rc, "Consequence")), ""))

\* hits.length, for one tag
TagHits(recs, tag) ==
  \E i \in 1..Len(recs) :
    \E w \in 1..Len(tag.words) : Includes(TagTxt(recs[i]), tag.words[w])

RECURSIVE TagRisks(_, _)
\* for (const tag of RISK_TAGS) ..., part_005:473-479
TagRisks(recs, t) ==
  IF t > Len(RISK_TAGS) THEN <<>>
  ELSE (IF TagHits(recs, RISK_TAGS[t])
        THEN <<[label |-> RISK_TAGS[t].key, score |-> 2,
                rationale |-> "Recall mention (+2)", complaints |-> 0,
                recall |-> TRUE, tsb |-> FALSE, checks |-> <<>>]>>
        ELSE <<>>) \o TagRisks(recs, t + 1)

\* POST /api/evidence/score, part_005:459-484: recalls only, looked up by VIN
EvidenceScoreRecalls ==
  /\ Pending /\ req.op = "evidence/score"
  /\ LET recallResults == RecallResults(req.rec) IN
     Answer([op |-> "evidence/score", variant |-> "recalls", status |-> 200,
             ok |-> TRUE, vehicle |-> decodeVIN(req.vpic),
             counts |-> [recalls |-> Len(recallResults), complaints |-> 0,
                         tsbs |-> 0],
             topRisks |-> TagRisks(recallResults, 1)])

(***************************************************************************)
(* Cost resolution (server.js, part_004: the same code).                   *)
(***************************************************************************)
\* the longest list of requested labels
MaxUpcoming == 2

\* labels a client asks a price for: two of the cost table, two unknown to it
UpcomingLabels == {"Oil change", "Battery", "Timing belt", "Water pump"}

\* what the estimator does with a request: it throws, answers no text,
\* answers text that is no JSON, prices every label, or only the first
EstimatorAnswers == {"throws", "empty", "garbled", "all", "first"}

\* request bodies, the environment of the process and the estimator's answer
CostsBodies ==
  [op : {"maintenance/costs"}, upcoming : SeqsUpTo(UpcomingLabels, MaxUpcoming),
   openai : BOOLEAN, OPENAI_MOCK : BOOLEAN, est : EstimatorAnswers]

\* const MOCK = process.env.OPENAI_MOCK === '1'
MOCK(env) == env.OPENAI_MOCK

\* const AI_ENABLED = !!openai && !MOCK
AI_ENABLED(env) == env.openai /\ ~MOCK(env)

RECURSIVE MapItems(_, _)
\* upcoming.map(label => ...).filter(Boolean): the labels of the cost table
MapItems(upcoming, i) ==
  IF i > Len(upcoming) THEN <<>>
  ELSE (IF upcoming[i] \in DOMAIN COST_MAP
        THEN <<[label |-> upcoming[i], amount |-> D(COST_MAP[upcoming[i]]),
                rationale |-> "default map", source |-> "map"]>>
        ELSE <<>>) \o MapItems(upcoming, i + 1)

RECURSIVE Unknowns(_, _)
\* upcoming.filter(label => COST_MAP[label] == null)
Unknowns(upcoming, i) ==
  IF i > Len(upcoming) THEN <<>>
  ELSE (IF upcoming[i] \in DOMAIN COST_MAP THEN <<>> ELSE <<upcoming[i]>>)
         \o Unknowns(upcoming, i + 1)

\* unknowns.forEach(u => items.push({ label: u, amount, rationale, source }))
FixedItems(unknowns, amt, tag) ==
  [i \in 1..Len(unknowns) |->
     [label |-> unknowns[i], amount |-> D(amt), rationale |-> tag,
      source |-> tag]]

\* (out.items || []).forEach(it => items.push({ ...it, source: 'ai' }))
EstimateItems(unknowns, est) ==
  LET n == IF est = "all" THEN Len(unknowns)
           ELSE IF est = "first" THEN 1 ELSE 0
  IN  [i \in 1..n |->
         [label |-> unknowns[i], amount |-> D(150), rationale |-> "estimate",
          source |-> "ai"]]

\* POST /api/maintenance/costs, server.js:130-161
MaintenanceCosts ==
  /\ Pending /\ req.op = "maintenance/costs"
  /\ LET items == MapItems(req.upcoming, 1)
         unknowns == Unknowns(req.upcoming, 1)
         ok(list) == Answer([op |-> "maintenance/costs", status |-> 200,
                             ok |-> TRUE, items |-> list])
     IN  IF Len(unknowns) > 0 /\ AI_ENABLED(req)
         THEN IF MOCK(req) THEN ok(items \o FixedItems(unknowns, 120, "mock"))
              ELSE IF req.est \in {"throws", "garbled"}
              THEN Answer([op |-> "maintenance/costs", status |-> 500,
                           ok |-> FALSE, error |-> "maintenance_costs_failed"])
              ELSE ok(items \o EstimateItems(unknowns, req.est))
         ELSE IF Len(unknowns) > 0 /\ ~AI_ENABLED(req)
         THEN ok(items \o FixedItems(unknowns, 100, "fallback"))
         ELSE ok(items)

(***************************************************************************)
(* Settings of any JSON kind (part_002).  The settings store above takes   *)
(* numbers only; here a request body carries any JSON value.  A value is a *)
(* record: t is its kind and n its number, in the unit of its key, when it  *)
(* is a finite number, or 1 when it is true.                               *)
(***************************************************************************)
Num(n) == [t |-> "number", n |-> n]
NaN == [t |-> "NaN", n |-> 0]
Infinity == [t |-> "Infinity", n |-> 0]
NegInfinity == [t |-> "-Infinity", n |-> 0]
Null == [t |-> "null", n |-> 0]
Bool(b) == [t |-> "boolean", n |-> IF b THEN 1 ELSE 0]
Object == [t |-> "object", n |-> 0]
Str(str) == [t |-> "string", n |-> 0, s |-> str]

\* the number n in the unit of key k: a rate is held in 1/10000, money in
\* units
Scale(k, n) == IF k = "holdingPercent" THEN 10000 * n ELSE D(n)

\* Number(v) of a string: blank is 0, digits are their number, "Infinity" is
\* Infinity, anything else of the strings sent here is NaN
NumberOf(k, str) ==
  LET t == Trim(str) IN
  IF t = "" THEN Num(0)
  ELSE IF t = "Infinity" THEN Infinity
  ELSE IF \A i \in 1..Len(t) : Ch(t, i) \in DIGIT THEN Num(Scale(k, ParseInt(t)))
  ELSE NaN

\* JSON.stringify / res.json of a value: NaN and the infinities become null
Stringify(v) == IF v.t \in {"NaN", "Infinity", "-Infinity"} THEN Null ELSE v

StringifyAll(o) == [k \in DOMAIN o |-> Stringify(o[k])]

\* data/settings.json as the server finds it at start
InitSettingsAny == [k \in DOMAIN InitSettings |-> Num(InitSettings[k])]

\* the values a client sends for a settings key
BodyValues(k) ==
  {Num(SettingValues(k)[1]), Str("3"), Str("abc"), Str("Infinity"), Null,
   Bool(TRUE), Object}

\* request bodies of POST /api/settings: one allowed key, or none
SettingsBodiesAny ==
  {[x \in {} |-> Null]}
    \cup UNION {{[x \in {k} |-> v] : v \in BodyValues(k)} : k \in allowed}

\* Object.assign({}, S) and the loop over the allowed keys, part_002:31-38:
\* if (typeof v === 'string') v = Number(v)
MergeAny(cur, body) ==
  [k \in DOMAIN cur \cup (allowed \cap DOMAIN body) |->
     IF k \in allowed /\ k \in DOMAIN body
     THEN (IF body[k].t = "string" THEN NumberOf(k, body[k].s) ELSE body[k])
     ELSE cur[k]]

\* POST /api/settings, part_002:28-43: the file gets JSON.stringify(next),
\* S gets next, the client gets res.json of it
PostSettingsAnyOk(body) ==
  LET next == MergeAny(S, body) IN
  /\ file' = StringifyAll(next)
  /\ S' = next
  /\ UNCHANGED <<req, dataFile, now>>
  /\ res' = [op |-> "settings/post", ok |-> TRUE,
             settings |-> StringifyAll(next)]

\* POST /api/settings: writeFileSync throws before S is assigned
PostSettingsAnyFail(body) ==
  /\ UNCHANGED <<S, file, req, dataFile, now>>
  /\ res' = [op |-> "settings/post", ok |-> FALSE, error |-> "EACCES"]

PostSettingsAny ==
  \E body \in SettingsBodiesAny :
    \/ PostSettingsAnyOk(body)
    \/ PostSettingsAnyFail(body)

\* GET /api/settings, part_002:22-27: JSON.parse of the file
GetSettingsAny ==
  /\ UNCHANGED <<S, file, req, dataFile, now>>
  /\ res' = [op |-> "settings/get", ok |-> TRUE, settings |-> file]

\* truthiness of a value
TruthyValue(v) ==
  CASE v.t = "number" -> v.n # 0
    [] v.t = "boolean" -> v.n = 1
    [] v.t \in {"NaN", "null"} -> FALSE
    [] OTHER -> TRUE

\* (v || 0)
OrZeroValue(v) == IF TruthyValue(v) THEN v ELSE Num(0)

\* the number an arithmetic operator makes of (v || 0)
ToNumber(k, v) ==
  CASE v.t = "boolean" -> Num(Scale(k, v.n))
    [] v.t = "null" -> Num(0)
    [] v.t = "object" -> NaN
    [] OTHER -> v

Operand(s, k) == ToNumber(k, OrZeroValue(s[k]))

\* the settings as numbers, 0 where the operand is no finite number
Numbers(s) == [k \in DOMAIN s |-> Operand(s, k).n]

\* a finite number minus the operands: NaN with a NaN operand, -Infinity
\* with an infinite one
Minus(operands, n) ==
  IF \E o \in operands : o.t = "NaN" THEN NaN
  ELSE IF \E o \in operands : o.t = "Infinity" THEN NegInfinity
  ELSE Num(n)

\* Math.round((S.holdingPercent||0) * retailBase)
HoldingAny(s, retailBase) ==
  LET h == Operand(s, "holdingPercent") IN
  IF h.t = "number" THEN Num(Holding(Numbers(s), retailBase))
  ELSE IF h.t = "Infinity" /\ retailBase # 0 THEN Infinity
  ELSE NaN

Ceiling1Any(s, b) ==
  Minus({Operand(s, "desiredProfit")}, Ceiling1(Numbers(s), b))

Ceiling2Any(s, b) ==
  Minus({Operand(s, "desiredProfit"), HoldingAny(s, b.retailBase),
         Operand(s, "docFee")},
        Ceiling2(Numbers(s), b))

\* Math.min(ceiling1, ceiling2)
TargetMaxBuyAny(s, b) ==
  LET c1 == Ceiling1Any(s, b)
      c2 == Ceiling2Any(s, b)
  IN  IF c1.t = "NaN" \/ c2.t = "NaN" THEN NaN
      ELSE IF c1.t = "-Infinity" \/ c2.t = "-Infinity" THEN NegInfinity
      ELSE Num(Min(c1.n, c2.n))

\* the bodies of the offer requests made between the writes
OfferBodiesAny ==
  [retailBase : RetailBases, wholesaleBase : {D(12040)},
   maintDeduction : {D(325)}, reconTotal : {D(450)}, riskReserve : {D(700)}]

\* POST /api/offer/calc, part_002:209-220, with res.json of the numbers
OfferCalcAny ==
  \E b \in OfferBodiesAny :
    /\ UNCHANGED <<S, file, req, dataFile, now>>
    /\ res' = [op |-> "offer/calc", ok |-> TRUE,
               numbers |->
                 StringifyAll(
                   [desiredProfit |-> OrZeroValue(S.desiredProfit),
                    holding |-> HoldingAny(S, b.retailBase),
                    fees |-> OrZeroValue(S.docFee),
                    targetMaxBuy |-> TargetMaxBuyAny(S, b)])]

(***************************************************************************)
(* Appraisal store (part_004, part_000: the same code).                    *)
(***************************************************************************)
\* the longest stored list, and the last millisecond of the clock
MaxAppraisals == 3
MaxNow == 2

\* request bodies of POST /api/appraisals; a client may send an id of its own
AppraisalBodies ==
  {[vin |-> v] : v \in {"1HGCR2F3XFA000001", "2T1BURHE0FC000002"}}
    \cup {[vin |-> "1HGCR2F3XFA000001", id |-> 1]}

\* req.query.vin
VinQueries == {"", "1hg", "2T1"}

\* const readAppraisals = () => JSON.parse(fs.readFileSync(dataFile, 'utf-8'))
readAppraisals == dataFile

\* fs.writeFileSync(dataFile, JSON.stringify(list, null, 2))
writeAppraisals(list) == dataFile' = list

\* { id: Date.now(), createdAt: new Date().toISOString(), ...req.body }: a
\* key of the body replaces the key set before it
NewAppraisal(body) ==
  [k \in {"id", "createdAt"} \cup DOMAIN body |->
     IF k \in DOMAIN body THEN body[k] ELSE now]

\* the clock moves on between two requests, or does not
Tick ==
  /\ now < MaxNow
  /\ now' = now + 1
  /\ UNCHANGED <<S, file, req, res, dataFile>>

\* POST /api/appraisals, part_004:363-369
PostAppraisals ==
  \E body \in AppraisalBodies :
    /\ Len(dataFile) < MaxAppraisals
    /\ LET list == readAppraisals
           item == NewAppraisal(body)
       IN  /\ writeAppraisals(<<item>> \o list)
           /\ res' = [op |-> "appraisals/post", ok |-> TRUE, appraisal |-> item]
    /\ UNCHANGED <<S, file, req, now>>

RECURSIVE FilterVin(_, _, _)
\* list.filter(a => (a.vin||'').toLowerCase().includes(q))
FilterVin(list, q, i) ==
  IF i > Len(list) THEN <<>>
  ELSE (IF lowerIncludes(Field(list[i], "vin"), q) THEN <<list[i]>> ELSE <<>>)
         \o FilterVin(list, q, i + 1)

\* GET /api/appraisals, part_004:370-375: q is lower-cased before the test
GetAppraisals ==
  \E vin \in VinQueries :
    /\ LET q == ToLowerCase(vin)
           list == readAppraisals
       IN  res' = [op |-> "appraisals/get", vin |-> vin,
                   list |-> IF q # "" THEN FilterVin(list, q, 1) ELSE list]
    /\ UNCHANGED <<S, file, req, dataFile, now>>

(***************************************************************************)
(* Specifications.                                                         *)
(***************************************************************************)
NoResponse == [op |-> "none"]
NoRequest == [op |-> "none"]

Init ==
  /\ S = InitSettings
  /\ file = InitSettings
  /\ dataFile = <<>>
  /\ now = 0
  /\ req = NoRequest
  /\ res = NoResponse

NextOffer == PostSettings \/ GetSettings \/ OfferCalc

\* the settings store and the offer calculator, request after request
SpecOffer == Init /\ [][NextOffer]_vars

InitExtract ==
  /\ S = InitSettings
  /\ file = InitSettings
  /\ dataFile = <<>>
  /\ now = 0
  /\ req \in [op : {"text"}, text : Texts]
  /\ res = NoResponse

NextExtract ==
  \/ SummarizeText
  \/ CarfaxUploadPdf
  \/ CarfaxUploadParse
  \/ CarfaxUploadByLine
  \/ CarfaxUploadText
  \/ SummarizeTextStates
  \/ CarfaxUploadStates

\* one report text, summarized by one of the upload or paste handlers
SpecExtract == InitExtract /\ [][NextExtract]_vars

InitGap ==
  /\ S = InitSettings
  /\ file = InitSettings
  /\ dataFile = <<>>
  /\ now = 0
  /\ req \in AdjustedBodies
  /\ res = NoResponse

NextGap == ValueAdjusted \/ ReportCustomer

\* one adjusted-wholesale request, then customer reports made from its answer
SpecGap == InitGap /\ [][NextGap]_vars

InitScore ==
  /\ S = InitSettings
  /\ file = InitSettings
  /\ dataFile = <<>>
  /\ now = 0
  /\ req \in EvidenceBodies
  /\ res = NoResponse

NextScore == EvidenceScore \/ EvidenceScoreRecalls

\* one evidence request and the answers of the services it calls
SpecScore == InitScore /\ [][NextScore]_vars

InitCosts ==
  /\ S = InitSettings
  /\ file = InitSettings
  /\ dataFile = <<>>
  /\ now = 0
  /\ req \in CostsBodies
  /\ res = NoResponse

NextCosts == MaintenanceCosts

\* one cost resolution request and what the estimator does with it
SpecCosts == InitCosts /\ [][NextCosts]_vars

InitAny ==
  /\ S = InitSettingsAny
  /\ file = InitSettingsAny
  /\ dataFile = <<>>
  /\ now = 0
  /\ req = NoRequest
  /\ res = NoResponse

NextAny == PostSettingsAny \/ GetSettingsAny \/ OfferCalcAny

\* the settings store written with bodies of any JSON kind
SpecAny == InitAny /\ [][NextAny]_vars

InitAppraisals ==
  /\ S = InitSettings
  /\ file = InitSettings
  /\ dataFile = <<>>
  /\ now = 0
  /\ req = NoRequest
  /\ res = NoResponse

NextAppraisals == Tick \/ PostAppraisals \/ GetAppraisals

\* the appraisal store, request after request, while the clock runs
SpecAppraisals == InitAppraisals /\ [][NextAppraisals]_vars

(***************************************************************************)
(* Claims about the offer calculator.                                      *)
(***************************************************************************)
IsOffer == res.op = "offer/calc"

\* C1: every offer calculation returns targetMaxBuy >= 0, also when the
\* deductions exceed the baseline values.
C1_TargetMaxBuyNonNegative == IsOffer => res.numbers.targetMaxBuy >= 0

\* C2: targetMaxBuy = max(0, floor(min(ceiling1, ceiling2))), with
\* ceiling1 = adjWholesale - reconTotal - riskReserve - desiredProfit and
\* ceiling2 = retailBase - desiredProfit - reconTotal - holding - fees.
C2_TargetMaxBuyFormula ==
  IsOffer =>
    LET n == res.numbers
        c1 == n.adjWholesale - n.reconTotal - n.riskReserve - n.desiredProfit
        c2 == n.retailBase - n.desiredProfit - n.reconTotal - n.holding - n.fees
    IN  n.targetMaxBuy = Max(0, FloorUnits(Min(c1, c2)))

\* C2, the scenario of the claim: the code answers 8565 there.
C2_Scenario ==
  /\ IsOffer
  /\ res.numbers.retailBase = D(14000)
  /\ res.numbers.wholesaleBase = D(12040)
  /\ res.numbers.maintDeduction = D(325)
  /\ res.numbers.reconTotal = D(450)
  /\ res.numbers.riskReserve = D(700)
  /\ res.numbers.desiredProfit = D(2000)
  /\ res.numbers.holding = D(115)
  /\ res.numbers.fees = D(235)
  /\ res.numbers.targetMaxBuy = D(8565)

\* C3: the adjusted wholesale value of an offer calculation is
\* max(0, round(wholesaleBase - maintDeduction)), never negative.
C3_AdjWholesaleClamped ==
  IsOffer =>
    /\ res.numbers.adjWholesale >= 0
    /\ res.numbers.adjWholesale =
         Max(0, RoundUnits(res.numbers.wholesaleBase - res.numbers.maintDeduction))

\* C4: the risk reserve subtracted in ceiling1 never exceeds
\* wholesaleBase * riskReserveCapPct.
C4_RiskReserveCapped ==
  IsOffer =>
    LET n == res.numbers
        used == n.adjWholesale - n.reconTotal - n.desiredProfit
                  - res.locals.ceiling1
    IN  used * 100 <= n.wholesaleBase * S.riskReserveCapPct

(***************************************************************************)
(* Claims about the report extractors.                                     *)
(***************************************************************************)
HasSummaryField(f) ==
  /\ res.op \in {"carfax/upload", "carfax/summarize-text"}
  /\ "summary" \in DOMAIN res
  /\ f \in DOMAIN res.summary

\* C6: a text that contains "no accidents reported" gives accidents = 0 in
\* every extractor, whatever other accident patterns it contains.
C6_NoAccidentsForcesZero ==
  (HasSummaryField("accidents")
     /\ Includes(ToLowerCase(req.text), "no accidents reported"))
    => res.summary.accidents = 0

\* the distinct "Owner N" headers of a text
OwnerHeaders(text) ==
  LET ms == MatchAll(ToLowerCase(text), OwnerHeaderRx) IN {ms[i] : i \in 1..Len(ms)}

\* the number of the "Owners: N" label of a text, 0 without a label
OwnersLabel(text) ==
  LET n == FirstCapture(ToLowerCase(text), OwnersLineRx) IN
  IF n = "" THEN 0 ELSE ParseInt(n)

\* C7: owners is the maximum of the number of distinct "Owner N" headers and
\* the "Owners: N" label; a repeated header does not raise it.
C7_OwnersIsMaxOfDistinct ==
  HasSummaryField("owners") =>
    res.summary.owners =
      Max(Cardinality(OwnerHeaders(req.text)), OwnersLabel(req.text))

\* C7, the scenario of the claim: three headers and the label "Owners: 5".
C7_Scenario ==
  /\ HasSummaryField("owners")
  /\ req.text = "Owner 1\nOwner 2\nOwner 3\nOwners: 5\n"
  /\ res.summary.owners = 5

\* kw occurs on a line the branding scan may use / on a disclaimer line
OnEligibleLine(kw, text) ==
  \E i \in 1..Len(Lines(text)) :
    LET line == Lines(text)[i] IN
    MentionsBrand(line) /\ ~IsDisclaimer(line) /\ Test(line, KwRx(kw))

OnlyOnDisclaimerLines(kw, text) ==
  /\ \E i \in 1..Len(Lines(text)) : Test(Lines(text)[i], KwRx(kw))
  /\ \A i \in 1..Len(Lines(text)) :
       Test(Lines(text)[i], KwRx(kw)) => IsDisclaimer(Lines(text)[i])

\* C8: branding extraction decides line by line: a keyword only on disclaimer
\* lines never enters brandings; a keyword on a non-disclaimer line with
\* "brand" or "title" always does, also with a disclaimer line elsewhere.
C8_BrandingsLineByLine ==
  (HasSummaryField("brandings") /\ res.variant \in {"byline", "text"}) =>
    \A i \in 1..Len(brandingKeywordsUpload) :
      LET kw == brandingKeywordsUpload[i] IN
      /\ OnlyOnDisclaimerLines(kw, req.text) => ~InSeq(kw, res.summary.brandings)
      /\ OnEligibleLine(kw, req.text) => InSeq(kw, res.summary.brandings)

\* C8, the two texts of the claim: the disclaimer alone gives no branding,
\* "Title: Salvage Brand" alone gives salvage.
C8_Scenario ==
  /\ HasSummaryField("brandings") /\ res.variant = "text"
  /\ req.text = "Title: Salvage Brand\n"
  /\ res.summary.brandings = <<"salvage">>

(***************************************************************************)
(* Claims about the gap inferrer and the totals built on it.               *)
(***************************************************************************)
Labels(items) == {items[i].label : i \in 1..Len(items)}

\* the additional costs whose label no maintenance item carries
RECURSIVE NotIn(_, _, _)
NotIn(arr, labels, i) ==
  IF i > Len(arr) THEN <<>>
  ELSE (IF arr[i].label \in labels THEN <<>> ELSE <<arr[i]>>)
         \o NotIn(arr, labels, i + 1)

\* C5: an item counted in the maintenance deduction is not counted again in
\* the reconditioning total: a label both lists carry is subtracted once.
C5_NoDoubleCount ==
  res.op = "report/customer" =>
    res.reconTotal = SumAmounts(NotIn(res.additionalCosts, Labels(res.gapItems), 1), 1)

\* C9: the list the gap inferrer returns carries each label at most once.
C9_GapLabelsUnique ==
  res.op = "value/adjusted" =>
    \A i, j \in 1..Len(res.items) :
      res.items[i].label = res.items[j].label => i = j

(***************************************************************************)
(* Claims about the evidence scorer.                                       *)
(***************************************************************************)
IsScore == res.op = "evidence/score" /\ res.variant = "full" /\ res.ok

\* the records a service answered with, none when the call failed
Fetched(a) ==
  IF a.failed THEN <<>>
  ELSE IF "isArray" \in DOMAIN a THEN (IF a.isArray THEN a.json ELSE <<>>)
  ELSE IF "results" \in DOMAIN a.json THEN a.json.results ELSE <<>>

\* the record has the keyword, in any case, in one of the named fields
Mentions(r, fields, key) ==
  \E f \in fields : f \in DOMAIN r /\ Includes(ToLowerCase(r[f]), key)

\* the records of the list that are classified into the bucket
Classified(list, fields, key) ==
  {i \in 1..Len(list) : Mentions(list[i], fields, key)}

\* C10: the primary score of every bucket is 3 for a bulletin in the bucket,
\* plus 2 for a recall in it, plus one tenth, rounded down, of the number of
\* complaint records classified into it; the ranked list carries that score.
C10_PrimaryScore ==
  IsScore =>
    /\ \A b \in 1..Len(buckets) :
         LET key == buckets[b].key
             hasTSB ==
               Classified(Fetched(req.tsbs),
                          {"component", "system_type", "summary"}, key) # {}
             hasRecall ==
               Classified(Fetched(req.rec), {"Component", "Summary"}, key) # {}
             complaintCount ==
               Cardinality(Classified(Fetched(req.cmp),
                                      {"component", "summary", "narrative"}, key))
         IN  /\ res.locals.mapped[b].label = buckets[b].label
             /\ res.locals.mapped[b].score =
                  (IF hasTSB THEN 3 ELSE 0) + (IF hasRecall THEN 2 ELSE 0)
                    + (complaintCount \div 10)
    /\ \A i \in 1..Len(res.locals.scored) :
         \E b \in 1..Len(buckets) : res.locals.scored[i] = res.locals.mapped[b]

\* a bucket with a bulletin, a recall and 23 complaints scores 7
C10_Scenario ==
  /\ IsScore
  /\ \E i \in 1..Len(res.locals.scored) :
       /\ res.locals.scored[i].tsb
       /\ res.locals.scored[i].recall
       /\ res.locals.scored[i].complaints = 23
       /\ res.locals.scored[i].score = 7

\* the primary entry of the bucket a ranked entry is about
Primary(label) ==
  LET b == CHOOSE k \in 1..Len(buckets) : buckets[k].label = label
  IN  res.locals.mapped[b]

\* C11: the ranked list of an answer holds no bucket of score 0, at most 5
\* entries, and scores that never increase along the list.
C11_TopRisksRanked ==
  IsScore =>
    /\ Len(res.topRisks) <= 5
    /\ \A i \in 1..Len(res.topRisks) : res.topRisks[i].score > 0
    /\ \A i, j \in 1..Len(res.topRisks) :
         i < j => res.topRisks[i].score >= res.topRisks[j].score

\* more than 5 buckets score, 5 are ranked, the web raised one of them, and
\* the ranked scores differ
C11_Scenario ==
  /\ IsScore
  /\ Cardinality({b \in 1..Len(buckets) : res.locals.mapped[b].score > 0}) > 5
  /\ Len(res.topRisks) = 5
  /\ \E i \in 1..5 : res.topRisks[i].score > Primary(res.topRisks[i].label).score
  /\ res.topRisks[1].score > res.topRisks[5].score

(***************************************************************************)
(* Claims about the settings store.                                        *)
(***************************************************************************)
IsWrite == res.op = "settings/post" /\ res.ok

C13_OneSnapshot ==
  [][(res'.op = "offer/calc" /\ res' # res) =>
       LET n == res'.numbers IN
       /\ S' = S
       /\ n.desiredProfit = OrZero(S.desiredProfit)
       /\ n.fees = OrZero(S.docFee)
       /\ n.holding =
            D(MathRound(OrZero(S.holdingPercent) * n.retailBase,
                        10000 * UnitsPerDollar))
       /\ res'.locals.ceiling1 =
            n.adjWholesale - n.reconTotal - n.riskReserve - OrZero(S.desiredProfit)
       /\ res'.locals.ceiling2 =
            n.retailBase - OrZero(S.desiredProfit) - n.reconTotal - n.holding
              - OrZero(S.docFee)]_vars

\* an offer calculated after writes have changed the profit, the holding rate
\* and the fee
C13_Scenario ==
  /\ IsOffer
  /\ S.desiredProfit # InitSettings.desiredProfit
  /\ S.holdingPercent # InitSettings.holdingPercent
  /\ S.docFee # InitSettings.docFee
  /\ res.numbers.holding > 0
  /\ res.numbers.desiredProfit = S.desiredProfit
  /\ res.numbers.fees = S.docFee

\* C14: an evidence request whose year, make or model stays unknown after
\* the label and the VIN lookup is still answered with a successful result.
C14_PartialIdentityTolerated ==
  (res.op = "evidence/score" /\ res.variant = "full") => res.ok

\* C15: whichever of the three evidence fetches fail or return nothing, the
\* request succeeds, such a source counts zero records and contributes to no
\* bucket, and each score is the one of the other sources' contributions.
C15_FailedFetchDegrades ==
  /\ (res.op = "evidence/score" /\ res.variant = "full"
        /\ Resolved(Identity(req.vehicle, req.vin, req.vpic))) =>
       /\ res.ok
       /\ res.counts = [recalls |-> Len(Fetched(req.rec)),
                        complaints |-> Len(Fetched(req.cmp)),
                        tsbs |-> Len(Fetched(req.tsbs))]
       /\ Fetched(req.tsbs) = <<>> =>
            \A b \in 1..Len(buckets) : ~res.locals.mapped[b].tsb
       /\ Fetched(req.rec) = <<>> =>
            \A b \in 1..Len(buckets) : ~res.locals.mapped[b].recall
       /\ Fetched(req.cmp) = <<>> =>
            \A b \in 1..Len(buckets) : res.locals.mapped[b].complaints = 0
       /\ \A b \in 1..Len(buckets) :
            LET e == res.locals.mapped[b] IN
            e.score = (IF e.tsb THEN 3 ELSE 0) + (IF e.recall THEN 2 ELSE 0)
                        + (e.complaints \div 10)
  /\ (res.op = "evidence/score" /\ res.variant = "recalls") =>
       /\ res.ok
       /\ res.counts.recalls = Len(Fetched(req.rec))
       /\ Fetched(req.rec) = <<>> => res.topRisks = <<>>

\* the recall and bulletin fetches fail, the complaints arrive and rank a
\* bucket
C15_Scenario ==
  /\ IsScore
  /\ req.rec.failed /\ req.tsbs.failed /\ ~req.cmp.failed
  /\ res.counts = [recalls |-> 0, complaints |-> 23, tsbs |-> 0]
  /\ Len(res.locals.scored) = 1
  /\ res.locals.scored[1].score = 2

SummaryFields ==
  {"accidents", "damageReports", "owners", "serviceRecords", "recalls",
   "lastOdometer", "usage", "brandings"}

\* C16: every report text, the empty and the blank one included, is answered
\* with a summary of the full shape and no error; a text without content
\* gives counts 0, no odometer, no usage and no brandings.
C16_ExtractionNeverFails ==
  res.op \in {"carfax/summarize-text", "carfax/upload"} =>
    /\ res.ok /\ res.status = 200
    /\ DOMAIN res.summary = SummaryFields
    /\ Trim(req.text) = "" =>
         res.summary = [accidents |-> 0, damageReports |-> 0, owners |-> 0,
                        serviceRecords |-> 0, recalls |-> 0,
                        lastOdometer |-> "null", usage |-> "null",
                        brandings |-> <<>>]

(***************************************************************************)
(* Claims about cost resolution and provenance.                            *)
(***************************************************************************)
\* the amount the claim gives a requested label
ResolvedAmount(label) ==
  IF label \in DOMAIN COST_MAP THEN D(COST_MAP[label])
  ELSE IF req.openai /\ ~req.OPENAI_MOCK /\ req.est = "all" THEN D(150)
  ELSE D(100)

\* C17: cost resolution prices every requested label, with the table amount,
\* else the estimate of a configured and succeeding estimator, else the
\* fallback constant; a failing estimator does not fail the request.
C17_EveryLabelPriced ==
  res.op = "maintenance/costs" =>
    /\ res.ok
    /\ \A i \in 1..Len(req.upcoming) :
         \E k \in 1..Len(res.items) :
           /\ res.items[k].label = req.upcoming[i]
           /\ res.items[k].amount = ResolvedAmount(req.upcoming[i])

\* C18: every priced maintenance item of an answer carries a tag that tells
\* whether its amount is of the cost table, of the estimator or the fallback.
C18_ProvenanceOnItems ==
  res.op = "value/adjusted" =>
    \A i \in 1..Len(res.items) :
      /\ res.items[i].source \in {"map", "ai", "estimate", "fallback"}
      /\ (res.items[i].source = "map") = (res.items[i].label \in DOMAIN COST_MAP)

(***************************************************************************)
(* Claims about web corroboration.                                         *)
(***************************************************************************)
\* the search is configured, and it fails or answers without a result list
WebUnavailable ==
  /\ req.SERP_API_KEY # ""
  /\ req.serp.failed \/ "organic_results" \notin DOMAIN req.serp.json

\* C19: when the configured web search fails or answers malformed data, the
\* request succeeds and the ranked list is the primary one: same buckets,
\* scores, rationales and order.
C19_WebFailureKeepsPrimary ==
  (res.op = "evidence/score" /\ res.variant = "full" /\ WebUnavailable
     /\ Resolved(Identity(req.vehicle, req.vin, req.vpic))) =>
    /\ res.ok
    /\ res.topRisks = res.locals.scored
    /\ res.locals.webSignals = <<>>

\* the search of a request that ranks several buckets fails
C19_Scenario ==
  /\ IsScore
  /\ req.SERP_API_KEY # "" /\ req.serp.failed
  /\ Len(res.topRisks) > 1
  /\ res.topRisks[1].score > 3

\* the bucket's keyword is in the snippets the search filter let through
WebHit(b) ==
  /\ req.SERP_API_KEY # ""
  /\ ~req.serp.failed
  /\ "organic_results" \in DOMAIN req.serp.json
  /\ Includes(Join(Snippets(req.serp.json.organic_results, 1), " "),
              buckets[b].key)

BucketOf(label) == CHOOSE b \in 1..Len(buckets) : buckets[b].label = label

\* C20: a keyword hit adds 1, once, to a ranked bucket and marks its
\* rationale; a hit for a bucket that is not ranked is a weak signal only:
\* the ranked list holds the buckets ranked before and no other score moves.
C20_WebAddsOneToRanked ==
  IsScore =>
    /\ Len(res.topRisks) = Len(res.locals.scored)
    /\ \A i \in 1..Len(res.topRisks) :
         \E k \in 1..Len(res.locals.scored) :
           LET e == res.topRisks[i]
               p == res.locals.scored[k]
               hit == WebHit(BucketOf(e.label))
           IN  /\ e.label = p.label
               /\ e.score = p.score + (IF hit THEN 1 ELSE 0)
               /\ e.rationale =
                    p.rationale
                      \o (IF hit THEN " · web corroboration (+1)" ELSE "")
    /\ \A b \in 1..Len(buckets) :
         (\E i \in 1..Len(res.locals.webSignals) :
            res.locals.webSignals[i] = buckets[b].label)
           <=> (/\ WebHit(b)
                /\ \A k \in 1..Len(res.locals.scored) :
                     res.locals.scored[k].label # buckets[b].label)

\* one ranked bucket is raised by the web and an unranked one is a weak
\* signal
C20_Scenario ==
  /\ IsScore
  /\ \E i \in 1..Len(res.topRisks) :
       /\ WebHit(BucketOf(res.topRisks[i].label))
       /\ res.topRisks[i].score = Primary(res.topRisks[i].label).score + 1
  /\ \E i \in 1..Len(res.topRisks) : ~WebHit(BucketOf(res.topRisks[i].label))
  /\ res.locals.webSignals # <<>>

(***************************************************************************)
(* Claims about the order and the wording of the ranked list.              *)
(***************************************************************************)
\* C21: in the final ranked list, buckets of equal score stand in the order
\* of the bucket table, also after web corroboration and the second sort.
C21_TiesInBucketOrder ==
  IsScore =>
    \A i \in 1..Len(res.topRisks) : \A j \in 1..Len(res.topRisks) :
      (i < j /\ res.topRisks[i].score = res.topRisks[j].score) =>
        BucketOf(res.topRisks[i].label) < BucketOf(res.topRisks[j].label)

\* C22: the rationale of a ranked bucket names only the terms that add
\* points, in the order TSB, recall, complaints; the complaint term is there
\* exactly when floor(complaints / 10) > 0.
C22_RationaleOnlyNonZeroTerms ==
  IsScore =>
    \A i \in 1..Len(res.locals.scored) :
      LET e == res.locals.scored[i]
          pts == MathFloor(e.complaints, 10)
      IN  e.rationale =
            Join((IF e.tsb THEN <<"TSB present (+3)">> ELSE <<>>)
                   \o (IF e.recall THEN <<"Recall mention (+2)">> ELSE <<>>)
                   \o (IF pts > 0
                       THEN <<ToString(e.complaints) \o " complaints (~+"
                                \o ToString(pts) \o ")">>
                       ELSE <<>>),
                 " · ")

\* C23: a record is classified into a bucket whenever a keyword of the
\* bucket occurs, in any case, in any of its free-text fields; one record
\* may fill several buckets and counts at most once in each.
C23_ClassifiedOnAllFields ==
  (res.op = "evidence/score" /\ res.ok) =>
    /\ res.variant = "full" =>
         \A b \in 1..Len(buckets) :
           LET key == buckets[b].key
               m == res.locals.mapped[b]
           IN  /\ m.complaints =
                    Cardinality(Classified(Fetched(req.cmp),
                                           {"component", "summary", "narrative"},
                                           key))
               /\ m.recall <=>
                    Classified(Fetched(req.rec), {"Component", "Summary"}, key)
                      # {}
               /\ m.tsb <=>
                    Classified(Fetched(req.tsbs),
                               {"component", "system_type", "summary"}, key)
                      # {}
    /\ res.variant = "recalls" =>
         \A t \in 1..Len(RISK_TAGS) :
           (\E i \in 1..Len(res.topRisks) :
              res.topRisks[i].label = RISK_TAGS[t].key)
             <=> \E w \in 1..Len(RISK_TAGS[t].words) :
                   Classified(Fetched(req.rec),
                              {"Component", "Summary", "Consequence"},
                              RISK_TAGS[t].words[w]) # {}

\* the host is an allow-listed domain or a subdomain of one
TrustedHost(h) ==
  \E d \in 1..Len(allow) :
    \/ h = allow[d]
    \/ /\ Len(h) > Len(allow[d])
       /\ SubSeq(h, Len(h) - Len(allow[d]), Len(h)) = "." \o allow[d]

\* the results of the answered search that come from a trusted host and
\* name the keyword
TrustedMentions(key) ==
  IF req.serp.failed \/ "organic_results" \notin DOMAIN req.serp.json THEN {}
  ELSE LET found == req.serp.json.organic_results IN
       {i \in 1..Len(found) :
          /\ Hostname(Field(found[i], "link")) # "invalid"
          /\ TrustedHost(Hostname(Field(found[i], "link")))
          /\ Includes(ToLowerCase(Field(found[i], "snippet")), key)}

\* C24: only results from an allow-listed host (or a subdomain of one) are
\* scanned: a bucket is raised, or recorded as a weak signal, only when a
\* result of a trusted host names its keyword.
C24_OnlyTrustedHostsScanned ==
  IsScore =>
    \A b \in 1..Len(buckets) :
      (\/ \E i \in 1..Len(res.locals.webSignals) :
            res.locals.webSignals[i] = buckets[b].label
       \/ \E i \in 1..Len(res.topRisks) :
            /\ res.topRisks[i].label = buckets[b].label
            /\ res.topRisks[i].score # Primary(buckets[b].label).score)
        => TrustedMentions(buckets[b].key) # {}

(***************************************************************************)
(* Further claims about the maintenance gap.                               *)
(***************************************************************************)
\* max(2, round(age * 1.2)), age 0 for an invalid or future year
ExpectedServiceCount(year) ==
  LET age == IF year > 1900 /\ year <= CurrentYear THEN CurrentYear - year ELSE 0
  IN  Max(2, (12 * age + 5) \div 10)

\* C25: the low-history bundle (Oil change, Engine air filter, Cabin filter)
\* is emitted exactly when serviceRecords < expectedServiceCount / 2, and
\* each of its three items carries the ratio records/expected in its rationale.
C25_LowHistoryBundle ==
  res.op = "value/adjusted" =>
    LET n == req.carfaxSummary.serviceRecords
        expected == ExpectedServiceCount(req.year)
        ratio == ToString(n) \o "/" \o ToString(expected)
        bundle == <<"Oil change", "Engine air filter", "Cabin filter">>
    IN  IF 2 * n < expected
        THEN /\ Len(res.items) >= 3
             /\ \A k \in 1..3 :
                  /\ res.items[k].label = bundle[k]
                  /\ StartsAt(res.items[k].rationale, 1, "Low service history")
                  /\ Includes(res.items[k].rationale, ratio)
        ELSE \A i \in 1..Len(res.items) :
               ~StartsAt(res.items[i].rationale, 1, "Low service history")

(***************************************************************************)
(* Further claims about extraction.                                        *)
(***************************************************************************)
\* the number of places of the text where the phrase starts
Occurrences(text, phrase) ==
  Cardinality({i \in 1..Len(text) : StartsAt(ToLowerCase(text), i, phrase)})

\* the extractors that count both accident patterns
TwoPatternVariants == {"paste", "pdf", "paste-states", "pdf-states"}

\* C26: without the "no accidents reported" assertion, accidents is the
\* larger of the number of "accident reported" occurrences and the number of
\* "accidents/damage" section markers, in each extractor with both patterns.
C26_AccidentsIsMaxOfCounts ==
  (/\ HasSummaryField("accidents")
   /\ res.variant \in TwoPatternVariants
   /\ Occurrences(req.text, "no accidents reported") = 0
   /\ Occurrences(req.text, "no accident reported") = 0)
    => res.summary.accidents =
         Max(Occurrences(req.text, "accident reported"),
             Occurrences(req.text, "accident/damage")
               + Occurrences(req.text, "accidents/damage"))

\* C27: every element of the extracted brandings is a keyword of the fixed
\* vocabulary, and none occurs twice.
C27_BrandingsFromVocabulary ==
  HasSummaryField("brandings") =>
    \A i \in 1..Len(res.summary.brandings) :
      /\ \E k \in 1..Len(brandingKeywords) :
           res.summary.brandings[i] = brandingKeywords[k]
      /\ \A j \in 1..Len(res.summary.brandings) :
           res.summary.brandings[i] = res.summary.brandings[j] => i = j

(***************************************************************************)
(* Claims about settings of any JSON kind.                                 *)
(***************************************************************************)
\* C28: after any sequence of settings writes, every stored value of an
\* allowed key is a finite number, and an offer calculation answers finite
\* numeric desiredProfit, holding, fees and targetMaxBuy.
C28_SettingsStayNumeric ==
  /\ \A k \in allowed : S[k].t = "number"
  /\ (res.op = "offer/calc" /\ res.ok) =>
       \A f \in {"desiredProfit", "holding", "fees", "targetMaxBuy"} :
         res.numbers[f].t = "number"

\* C29: the settings in memory and the settings file agree at every request
\* boundary; a write that answers ok:true leaves both holding the merged
\* object it answers with.
C29_MemoryMatchesFile ==
  /\ S = file
  /\ (res.op = "settings/post" /\ res.ok) => res.settings = S
  /\ (res.op = "settings/get" /\ res.ok) => res.settings = S

(***************************************************************************)
(* Claims about the appraisal store.                                       *)
(***************************************************************************)
\* C30: the stored appraisals have pairwise distinct ids, each POST has put
\* its entry in front of the earlier ones, and GET /api/appraisals without a
\* VIN filter answers the stored list.
C30_AppraisalsKeptDistinct ==
  /\ \A i \in 1..Len(dataFile) : \A j \in 1..Len(dataFile) :
       dataFile[i].id = dataFile[j].id => i = j
  /\ res.op = "appraisals/post" =>
       Len(dataFile) > 0 /\ dataFile[1] = res.appraisal
  /\ (res.op = "appraisals/get" /\ res.vin = "") => res.list = dataFile

=============================================================================
